---- MODULE Spec2Model ----
(***************************************************************************)
(* A model of the network resilience layer of enclave-ts:                  *)
(*   - WebSocketClient (src/src/client/websocket/WebSocketClient.ts): the  *)
(*     streaming connection manager, its subscription registry, heartbeat  *)
(*     and reconnect timers;                                               *)
(*   - EnclaveClient.request (src/src/client/EnclaveClient.ts): the        *)
(*     request executor with its retry chain.                              *)
(* Spec is the state machine of one WebSocketClient, SpecRequest the state *)
(* machine of one request() call.  SpecLive, SpecRegistry and SpecDispatch *)
(* are WebSocketClients in narrower environments: reconnection under a     *)
(* fair timer, keys with two handlers, and inbound frames.  Every handler  *)
(* runs to completion, as on the Node.js event loop, so each handler is    *)
(* one action.                                                             *)
(***************************************************************************)
EXTENDS Integers, Sequences, FiniteSets, TLC

VARIABLES
    \* ---- WebSocketClient fields (WebSocketClient.ts:51-58) ----
    ws,                 \* this.ws: 0 is undefined, else the id of a transport
    isConnected,        \* this.isConnected
    reconnect,          \* this.config.reconnect
    reconnectAttempts,  \* this.reconnectAttempts
    heartbeatInterval,  \* this.heartbeatInterval is set
    reconnectTimeout,   \* this.reconnectTimeout: "undefined", "pending", "done"
    subscriptions,      \* this.subscriptions, in Map iteration order
    hasAuth,            \* this.config.auth is set
    reconnectDelay,     \* this.config.reconnectDelay
    maxReconnectAttempts, \* this.config.maxReconnectAttempts
    sequenceNumber,     \* this.sequenceNumber
    \* ---- the environment of the client ----
    readyState,         \* readyState of every transport created by connect()
    orphanTimers,       \* pending reconnect timers whose handle was overwritten
    heartbeatTimers,    \* setInterval timers of the heartbeat that are active
    \* ---- observations ----
    sent,               \* what the last handler wrote with ws.send / ws.ping
    announced,          \* per transport: keys whose subscribe reached the wire
    afterDisconnect,    \* disconnect() returned and the user has not called connect() since
    emitted,            \* the events the last handler emitted to listeners, in order
    scheduled,          \* the delays of the reconnect timers set since the last open
    \* ---- inbound frames and their dispatch ----
    errorListener,      \* the user registered a listener for 'error' events
    invoked,            \* the handlers the last inbound frame was handed to, in order
    thrown,             \* an exception left handleMessage while the last frame was handled
    highestSeen,        \* highest sequence number carried by any frame received so far
    parseFailed,        \* a frame that does not parse has been received
    lastRegistryOp,     \* the last subscribe or unsubscribe call of the user, when it
                        \* began or ended one of the registry round trips
    connectPromise,     \* the promise the user's last connect() returned, and the
                        \* transport whose handlers resolve or reject it
    \* ---- EnclaveClient and EnclaveApiError ----
    wsClient,           \* this.wsClient of the EnclaveClient is set
    clientCall,         \* the EnclaveClient method called last
    clientError,        \* what that call threw
    errorBody,          \* the responseBody an EnclaveApiError is constructed with
    apiError,           \* the EnclaveApiError constructed from it
    \* ---- one EnclaveClient.request() call chain ----
    maxRetries,         \* this.maxRetries
    retryDelay,         \* this.retryDelay
    call,               \* the method and path request() was called with
    attempt,            \* attempt number of the newest request() invocation, 0 before the call
    reqState,           \* per attempt: state of its https request
    promise,            \* per attempt: the promise its request() invocation returned
    retryTimer,         \* a setTimeout for the next attempt is pending
    delays,             \* the delays passed to setTimeout, in order
    outcomes,           \* per attempt: the kind of event that answered it
    lastAnswer          \* the response or error that answered the newest attempt

wsVars == <<ws, isConnected, reconnect, reconnectAttempts, heartbeatInterval,
            reconnectTimeout, subscriptions, hasAuth, readyState, orphanTimers,
            sent, announced, afterDisconnect, emitted, reconnectDelay,
            maxReconnectAttempts, heartbeatTimers, scheduled>>

msgVars == <<sequenceNumber, errorListener, invoked, thrown, highestSeen,
             parseFailed, lastRegistryOp, connectPromise>>

reqVars == <<maxRetries, retryDelay, call, attempt, reqState, promise, retryTimer,
             delays, outcomes, lastAnswer>>

clientVars == <<wsClient, clientCall, clientError, errorBody, apiError>>

vars == <<wsVars, msgVars, reqVars, clientVars>>

----------------------------------------------------------------------------
(* Bounds of the model *)

\* transports that may be connecting, open or closing at the same time
MaxTransports == 2
\* reconnect timers that may be pending at the same time
MaxTimers == 2
\* the configured maxReconnectAttempts of the client under check
MaxReconnectAttempts == 2
\* largest configured maxRetries of the request executor under check
MaxMaxRetries == 3

Transports == 1..MaxTransports

----------------------------------------------------------------------------
(* Subscription keys.  A string is a sequence of tokens, ":" being the     *)
(* separator character, so that building and splitting a key are computed *)
(* as the code computes them.                                              *)

Sep == ":"
\* WebSocketChannel values used by the client under check
Channels == { <<"tradesPerps">> }
\* markets passed to subscribe; <<>> is an absent (or empty) market
Markets == { <<>>, <<"BTC-USD.P">> }
Handlers == { "h1" }
\* the handlers of a client whose keys may have more than one
TwoHandlers == { "h1", "h2" }
\* the handler argument of unsubscribe may be omitted
NoHandler == "none"

getSubscriptionKey(channel, market) ==
    IF market # <<>> THEN channel \o <<Sep>> \o market ELSE channel

RECURSIVE split(_)
split(s) ==
    IF \A i \in 1..Len(s) : s[i] # Sep
    THEN <<s>>
    ELSE LET i == CHOOSE i \in 1..Len(s) :
                      s[i] = Sep /\ \A j \in 1..(i - 1) : s[j] # Sep
         IN <<SubSeq(s, 1, i - 1)>> \o split(SubSeq(s, i + 1, Len(s)))

Keys == { getSubscriptionKey(c, m) : c \in Channels, m \in Markets }

----------------------------------------------------------------------------
(* The registry: a Map from key to Set of handlers.  Map and Set iterate    *)
(* in insertion order, so both are sequences without repetition.           *)

HasKey(subs, key) == \E i \in 1..Len(subs) : subs[i].key = key

HandlersOf(subs, key) ==
    IF HasKey(subs, key)
    THEN (CHOOSE e \in { subs[i] : i \in 1..Len(subs) } : e.key = key).handlers
    ELSE <<>>

\* faulty variant of SetAdd: a handler already in the set is added again
SetAdd_appends(hs, h) == Append(hs, h)

\* Set.prototype.add: a member keeps its place, a new one goes last
SetAdd(hs, h) == IF \E i \in 1..Len(hs) : hs[i] = h THEN hs ELSE Append(hs, h)

\* faulty variant of SetDelete: every handler is removed
SetDelete_all(hs, h) == <<>>

\* Set.prototype.delete
SetDelete(hs, h) == SelectSeq(hs, LAMBDA x : x # h)

RegistryKeys(subs) == [ i \in 1..Len(subs) |-> subs[i].key ]

\* faulty variant of DeleteKey: the entry stays, emptied of its handlers
DeleteKey_keepsEntry(subs, key) ==
    [ i \in 1..Len(subs) |->
        IF subs[i].key = key THEN [ subs[i] EXCEPT !.handlers = <<>> ] ELSE subs[i] ]

RECURSIVE DeleteKey(_, _)
DeleteKey(subs, key) ==
    IF subs = <<>> THEN <<>>
    ELSE IF Head(subs).key = key THEN Tail(subs)
    ELSE <<Head(subs)>> \o DeleteKey(Tail(subs), key)

AddHandler(subs, key, h) ==
    IF HasKey(subs, key)
    THEN [ i \in 1..Len(subs) |->
             IF subs[i].key = key
             THEN [ subs[i] EXCEPT !.handlers = SetAdd(@, h) ]
             ELSE subs[i] ]
    ELSE Append(subs, [ key |-> key, handlers |-> <<h>> ])

\* faulty variant of RemoveHandler: the entry of a key is kept when its last
\* handler is removed
RemoveHandler_keepsEmptyEntry(subs, key, h) ==
    IF h = NoHandler THEN DeleteKey(subs, key)
    ELSE [ i \in 1..Len(subs) |->
             IF subs[i].key = key
             THEN [ subs[i] EXCEPT !.handlers = SetDelete(@, h) ]
             ELSE subs[i] ]

RemoveHandler(subs, key, h) ==
    IF h = NoHandler THEN DeleteKey(subs, key)
    ELSE IF ~HasKey(subs, key) THEN subs
    ELSE IF SetDelete(HandlersOf(subs, key), h) = <<>> THEN DeleteKey(subs, key)
    ELSE [ i \in 1..Len(subs) |->
             IF subs[i].key = key
             THEN [ subs[i] EXCEPT !.handlers = SetDelete(@, h) ]
             ELSE subs[i] ]

----------------------------------------------------------------------------
(* Wire messages and send().                                               *)

SubscribeMsg(channel, market) ==
    [ op |-> "subscribe", channel |-> channel, market |-> market ]

UnsubscribeMsg(channel, market) ==
    [ op |-> "unsubscribe", channel |-> channel, market |-> market ]

AuthMsg == [ op |-> "auth", channel |-> <<>>, market |-> <<>> ]

PingMsg == [ op |-> "ping", channel |-> <<>>, market |-> <<>> ]

\* send(message) with this.ws = w and transports in states rs: the writes made
send(w, rs, message) ==
    IF w # 0 /\ rs[w] = "OPEN" THEN << [ t |-> w, msg |-> message ] >> ELSE <<>>

RECURSIVE sendAll(_, _, _)
sendAll(w, rs, messages) ==
    IF messages = <<>> THEN <<>>
    ELSE send(w, rs, Head(messages)) \o sendAll(w, rs, Tail(messages))

\* authenticate(): one auth message when credentials are configured
authenticate(auth) == IF auth THEN <<AuthMsg>> ELSE <<>>

\* resubscribeAll(): one subscribe message per key, rebuilt from key.split(':')
resubscribeAll(subs) ==
    [ i \in 1..Len(subs) |->
        LET parts == split(subs[i].key)
        IN SubscribeMsg(parts[1], IF Len(parts) >= 2 THEN parts[2] ELSE <<>>) ]

MsgKey(m) == getSubscriptionKey(m.channel, m.market)

\* the keys announced on each transport once `writes` reached the wire
Announce(ann, writes) ==
    [ t \in Transports |->
        (ann[t] \cup { MsgKey(writes[i].msg) : i \in
                         { j \in 1..Len(writes) :
                             writes[j].t = t /\ writes[j].msg.op = "subscribe" } })
        \ { MsgKey(writes[i].msg) : i \in
              { j \in 1..Len(writes) :
                  writes[j].t = t /\ writes[j].msg.op = "unsubscribe" } } ]

NoCall == [ method |-> "", path |-> "" ]

NoApiError == [ message |-> <<>>, statusCode |-> 0, responseBody |-> <<>> ]

\* config.reconnectDelay ?? 5000     (line 68)
DefaultReconnectDelay == 5000

NoAnswer == [ kind |-> "none", status |-> 0, data |-> "", cause |-> "" ]

----------------------------------------------------------------------------
(* Initial state of a WebSocketClient (constructor, lines 60-71).          *)

InitWs ==
    /\ ws = 0
    /\ isConnected = FALSE
    /\ reconnect = TRUE
    /\ reconnectAttempts = 0
    /\ heartbeatInterval = FALSE
    /\ reconnectTimeout = "undefined"
    /\ subscriptions = <<>>
    /\ hasAuth \in BOOLEAN
    /\ readyState = [ t \in Transports |-> "NONE" ]
    /\ orphanTimers = 0
    /\ sent = <<>>
    /\ announced = [ t \in Transports |-> {} ]
    /\ afterDisconnect = FALSE
    /\ emitted = <<>>
    /\ reconnectDelay = DefaultReconnectDelay
    /\ maxReconnectAttempts = MaxReconnectAttempts
    /\ heartbeatTimers = 0
    /\ scheduled = <<>>

NoRegistryOp == [ key |-> <<>>, handler |-> "none", phase |-> "none" ]

\* the user has not called connect()
NoPromise == [ transport |-> 0, state |-> "none" ]

\* no frame has been received; the client is taken to have an 'error'
\* listener (EventEmitter.emit('error') throws when it has none)
IdleMsg ==
    /\ sequenceNumber = 0
    /\ errorListener = TRUE
    /\ invoked = <<>>
    /\ thrown = FALSE
    /\ highestSeen = 0
    /\ parseFailed = FALSE
    /\ lastRegistryOp = NoRegistryOp
    /\ connectPromise = NoPromise

\* no EnclaveClient method has been called, no EnclaveApiError constructed
IdleClient ==
    /\ wsClient = FALSE
    /\ clientCall = ""
    /\ clientError = ""
    /\ errorBody = <<>>
    /\ apiError = NoApiError

\* the request executor is idle while the WebSocketClient is checked
IdleRequest ==
    /\ maxRetries = 0
    /\ retryDelay = 0
    /\ call = NoCall
    /\ attempt = 0
    /\ reqState = <<>>
    /\ promise = <<>>
    /\ retryTimer = FALSE
    /\ delays = <<>>
    /\ outcomes = <<>>
    /\ lastAnswer = NoAnswer

Init == InitWs /\ IdleMsg /\ IdleRequest /\ IdleClient

----------------------------------------------------------------------------
(* connect(): lines 76-91.  It creates a transport and stores it in        *)
(* this.ws, whatever this.ws held before.  A closed transport that nothing *)
(* refers to any more gives its slot back.                                 *)
(*                                                                         *)
(* The transport is the ws library's WebSocket.  Its readyState goes       *)
(* CONNECTING -> OPEN ('open'), CONNECTING -> CLOSED ('error' then         *)
(* 'close', in one tick), OPEN -> CLOSING (an error, a close frame or      *)
(* close()) and OPEN or CLOSING -> CLOSED ('close').  close() on a         *)
(* connecting transport aborts the handshake: the transport is CLOSING     *)
(* until its 'error' and 'close' events are delivered.  The 'error'        *)
(* handler (lines 134-140) changes no field of the client; the client is   *)
(* taken to have an 'error' listener, without which emit('error') throws   *)
(* and ends the process.                                                   *)

LiveTransports == { t \in Transports : readyState[t] \in {"CONNECTING", "OPEN"} }

FreeSlots == { t \in Transports : readyState[t] \in {"NONE", "CLOSED"} }

NewTransport == CHOOSE t \in FreeSlots : \A u \in FreeSlots : t <= u

doConnect ==
    /\ FreeSlots # {}
    /\ ws' = NewTransport
    /\ readyState' = [ t \in Transports |->
                         IF t = NewTransport THEN "CONNECTING"
                         ELSE IF readyState[t] = "CLOSED" THEN "NONE"
                         ELSE readyState[t] ]
    /\ announced' = [ announced EXCEPT ![NewTransport] = {} ]
    /\ sent' = <<>>
    /\ emitted' = <<>>

\* stopHeartbeat(): lines 380-385.  The timers left active once the interval
\* held in this.heartbeatInterval, if any, is cleared.
stopHeartbeat(handle, timers) == IF handle THEN timers - 1 ELSE timers

\* faulty variant of startHeartbeat: the interval already held is not stopped
startHeartbeat_withoutStop(handle, timers) == timers + 1

\* startHeartbeat(): lines 365-375.  The timers active once the new
\* interval is set.
startHeartbeat(handle, timers) == stopHeartbeat(handle, timers) + 1

\* faulty variant of AttemptsAfterOpen: the counter is kept
AttemptsAfterOpen_kept(n) == n

\* this.reconnectAttempts = 0: line 97
AttemptsAfterOpen(n) == 0

Min(a, b) == IF a < b THEN a ELSE b

\* faulty variant of reconnectBackoff: the exponent is not capped
reconnectBackoff_uncapped(k) == reconnectDelay * 2 ^ (k - 1)

\* the delay of the timer set for attempt k: lines 392-393
reconnectBackoff(k) == reconnectDelay * 2 ^ Min(k - 1, 5)

\* the user calls connect()
connect ==
    /\ doConnect
    /\ afterDisconnect' = FALSE
    /\ UNCHANGED <<isConnected, reconnect, reconnectAttempts, scheduled, heartbeatInterval, heartbeatTimers,
                   reconnectTimeout, subscriptions, hasAuth, reconnectDelay, maxReconnectAttempts, orphanTimers>>

\* the 'open' handler of transport t: lines 92-110
WsOpen(t) ==
    /\ readyState[t] = "CONNECTING"
    /\ readyState' = [ readyState EXCEPT ![t] = "OPEN" ]
    /\ isConnected' = TRUE
    /\ reconnectAttempts' = AttemptsAfterOpen(reconnectAttempts)
    /\ scheduled' = <<>>
    /\ heartbeatInterval' = TRUE
    /\ heartbeatTimers' = startHeartbeat(heartbeatInterval, heartbeatTimers)
    /\ emitted' = <<"connected">>
    /\ sent' = sendAll(ws, readyState',
                       authenticate(hasAuth) \o resubscribeAll(subscriptions))
    /\ announced' = Announce(announced, sent')
    /\ UNCHANGED <<ws, reconnect, reconnectTimeout, subscriptions, hasAuth, reconnectDelay, maxReconnectAttempts,
                   orphanTimers, afterDisconnect>>

\* scheduleReconnect(): lines 390-406.  The new handle overwrites
\* this.reconnectTimeout; a timer still pending under the old handle stays
\* pending with no reference left to it.
scheduleReconnect ==
    /\ reconnectAttempts' = reconnectAttempts + 1
    /\ scheduled' = Append(scheduled, reconnectBackoff(reconnectAttempts'))
    /\ reconnectTimeout' = "pending"
    /\ orphanTimers' = IF reconnectTimeout = "pending"
                       THEN orphanTimers + 1 ELSE orphanTimers

PendingTimers == orphanTimers + (IF reconnectTimeout = "pending" THEN 1 ELSE 0)

\* faulty variant of shouldReconnect: the last permitted attempt is not made
shouldReconnect_oneAttemptShort ==
    reconnect /\ reconnectAttempts + 1 < maxReconnectAttempts

\* the condition of lines 151-154
\* faulty variant of shouldReconnect: one attempt more than permitted
shouldReconnect_oneAttemptMore ==
    reconnect /\ reconnectAttempts <= maxReconnectAttempts

\* faulty variant of shouldReconnect: config.reconnect is not consulted
shouldReconnect_ignoresFlag == reconnectAttempts < maxReconnectAttempts

shouldReconnect == reconnect /\ reconnectAttempts < maxReconnectAttempts

\* the 'close' handler: lines 142-157
onClose(t) ==
    /\ readyState' = [ readyState EXCEPT ![t] = IF ws = t THEN "CLOSED" ELSE "NONE" ]
    /\ announced' = [ announced EXCEPT ![t] = {} ]
    /\ isConnected' = FALSE
    /\ heartbeatInterval' = FALSE
    /\ heartbeatTimers' = stopHeartbeat(heartbeatInterval, heartbeatTimers)
    /\ IF shouldReconnect
       THEN PendingTimers < MaxTimers /\ scheduleReconnect
       ELSE UNCHANGED <<reconnectAttempts, scheduled, reconnectTimeout, orphanTimers>>
    /\ sent' = <<>>
    /\ UNCHANGED <<ws, reconnect, subscriptions, hasAuth, reconnectDelay, maxReconnectAttempts, afterDisconnect>>

\* the transport closes: the peer or the network ended an open connection,
\* or a closing handshake completed
WsClose(t) ==
    /\ readyState[t] \in {"OPEN", "CLOSING"}
    /\ onClose(t)
    /\ emitted' = <<"disconnected">>

\* the connection attempt fails: 'error' (lines 134-140), then 'close'
WsConnectFail(t) ==
    /\ readyState[t] = "CONNECTING"
    /\ errorListener
    /\ onClose(t)
    /\ emitted' = <<"error", "disconnected">>

\* an open transport reports an error (lines 134-140) and starts closing;
\* its 'close' event follows later
WsError(t) ==
    /\ readyState[t] = "OPEN"
    /\ errorListener
    /\ readyState' = [ readyState EXCEPT ![t] = "CLOSING" ]
    /\ sent' = <<>>
    /\ emitted' = <<"error">>
    /\ UNCHANGED <<ws, isConnected, reconnect, reconnectAttempts, scheduled, heartbeatInterval, heartbeatTimers,
                   reconnectTimeout, subscriptions, hasAuth, reconnectDelay, maxReconnectAttempts, orphanTimers,
                   announced, afterDisconnect>>

\* a reconnect timer fires (lines 399-405): it calls connect(), whatever
\* this.config.reconnect is by then.  orphan tells which timer fires.
ReconnectTimerFires(orphan) ==
    /\ IF orphan THEN orphanTimers > 0 ELSE reconnectTimeout = "pending"
    /\ doConnect
    /\ orphanTimers' = IF orphan THEN orphanTimers - 1 ELSE orphanTimers
    /\ reconnectTimeout' = IF orphan THEN reconnectTimeout ELSE "done"
    /\ UNCHANGED <<isConnected, reconnect, reconnectAttempts, scheduled, heartbeatInterval, heartbeatTimers,
                   subscriptions, hasAuth, reconnectDelay, maxReconnectAttempts, afterDisconnect>>

\* ws.close() as the transport library does it: a connecting transport aborts
\* its handshake, an open one starts the closing handshake
closeTransport(state) ==
    IF state \in {"CONNECTING", "OPEN"} THEN "CLOSING"
    ELSE IF state = "CLOSED" THEN "NONE"
    ELSE state

\* clearTimeout(this.reconnectTimeout): lines 173-175
clearReconnectTimeout(handle) == IF handle = "pending" THEN "done" ELSE handle

\* faulty variant of disconnect: the registry is cleared as well
disconnect_clearsRegistry ==
    /\ reconnect' = FALSE
    /\ reconnectTimeout' = clearReconnectTimeout(reconnectTimeout)
    /\ heartbeatInterval' = FALSE
    /\ heartbeatTimers' = stopHeartbeat(heartbeatInterval, heartbeatTimers)
    /\ readyState' = IF ws # 0
                     THEN [ readyState EXCEPT ![ws] = closeTransport(@) ]
                     ELSE readyState
    /\ ws' = 0
    /\ isConnected' = FALSE
    /\ sent' = <<>>
    /\ emitted' = <<"disconnected">>
    /\ afterDisconnect' = TRUE
    /\ subscriptions' = <<>>
    /\ UNCHANGED <<reconnectAttempts, scheduled, hasAuth, reconnectDelay,
                   maxReconnectAttempts, orphanTimers, announced>>

\* disconnect(): lines 171-183
disconnect ==
    /\ reconnect' = FALSE
    /\ reconnectTimeout' = clearReconnectTimeout(reconnectTimeout)
    /\ heartbeatInterval' = FALSE
    /\ heartbeatTimers' = stopHeartbeat(heartbeatInterval, heartbeatTimers)
    /\ readyState' = IF ws # 0
                     THEN [ readyState EXCEPT ![ws] = closeTransport(@) ]
                     ELSE readyState
    /\ ws' = 0
    /\ isConnected' = FALSE
    /\ sent' = <<>>
    /\ emitted' = <<"disconnected">>
    /\ afterDisconnect' = TRUE
    /\ UNCHANGED <<reconnectAttempts, scheduled, subscriptions, hasAuth, reconnectDelay, maxReconnectAttempts, orphanTimers, announced>>

\* subscribe(channel, handler, market): lines 188-201
subscribe(channel, handler, market) ==
    /\ subscriptions' =
           AddHandler(subscriptions, getSubscriptionKey(channel, market), handler)
    /\ sent' = IF isConnected
               THEN send(ws, readyState, SubscribeMsg(channel, market))
               ELSE <<>>
    /\ announced' = Announce(announced, sent')
    /\ emitted' = <<>>
    /\ UNCHANGED <<ws, isConnected, reconnect, reconnectAttempts, scheduled, heartbeatInterval, heartbeatTimers,
                   reconnectTimeout, hasAuth, reconnectDelay, maxReconnectAttempts, readyState, orphanTimers,
                   afterDisconnect>>

\* unsubscribe(channel, handler?, market): lines 206-227
unsubscribe(channel, handler, market) ==
    /\ subscriptions' =
           RemoveHandler(subscriptions, getSubscriptionKey(channel, market), handler)
    /\ sent' = IF isConnected
                  /\ ~HasKey(subscriptions', getSubscriptionKey(channel, market))
               THEN send(ws, readyState, UnsubscribeMsg(channel, market))
               ELSE <<>>
    /\ announced' = Announce(announced, sent')
    /\ emitted' = <<>>
    /\ UNCHANGED <<ws, isConnected, reconnect, reconnectAttempts, scheduled, heartbeatInterval, heartbeatTimers,
                   reconnectTimeout, hasAuth, reconnectDelay, maxReconnectAttempts, readyState, orphanTimers,
                   afterDisconnect>>

\* the heartbeat interval fires: lines 367-374
HeartbeatTick ==
    /\ heartbeatTimers > 0
    /\ sent' = send(ws, readyState, PingMsg)
    /\ emitted' = <<>>
    /\ UNCHANGED <<ws, isConnected, reconnect, reconnectAttempts, scheduled, heartbeatInterval, heartbeatTimers,
                   reconnectTimeout, subscriptions, hasAuth, reconnectDelay, maxReconnectAttempts, readyState,
                   orphanTimers, announced, afterDisconnect>>

Next ==
    \/ connect /\ UNCHANGED <<msgVars, reqVars, clientVars>>
    \/ \E t \in Transports : WsOpen(t) /\ UNCHANGED <<msgVars, reqVars, clientVars>>
    \/ \E t \in Transports : WsClose(t) /\ UNCHANGED <<msgVars, reqVars, clientVars>>
    \/ \E t \in Transports : WsConnectFail(t) /\ UNCHANGED <<msgVars, reqVars, clientVars>>
    \/ \E t \in Transports : WsError(t) /\ UNCHANGED <<msgVars, reqVars, clientVars>>
    \/ \E orphan \in BOOLEAN : ReconnectTimerFires(orphan) /\ UNCHANGED <<msgVars, reqVars, clientVars>>
    \/ disconnect /\ UNCHANGED <<msgVars, reqVars, clientVars>>
    \/ \E c \in Channels, h \in Handlers, m \in Markets :
           subscribe(c, h, m) /\ UNCHANGED <<msgVars, reqVars, clientVars>>
    \/ \E c \in Channels, h \in Handlers \cup {NoHandler}, m \in Markets :
           unsubscribe(c, h, m) /\ UNCHANGED <<msgVars, reqVars, clientVars>>
    \/ HeartbeatTick /\ UNCHANGED <<msgVars, reqVars, clientVars>>

Spec == Init /\ [][Next]_vars

----------------------------------------------------------------------------
(* Properties of the WebSocketClient, checked under Spec.                  *)

\* the subscribe messages among `writes` that were written on transport t
SubscribesOn(writes, t) ==
    LET onT == SelectSeq(writes, LAMBDA w : w.t = t /\ w.msg.op = "subscribe")
    IN [ i \in 1..Len(onT) |-> onT[i].msg ]

\* the subscribe message that announces key
MsgForKey(key) ==
    CHOOSE m \in { SubscribeMsg(c, mk) : c \in Channels, mk \in Markets } :
        MsgKey(m) = key

\* C1: at most one transport of the client is connecting or open at any
\* time, whatever connect() and disconnect() calls and transport events
\* came before.
C1_AtMostOneLiveTransport == Cardinality(LiveTransports) <= 1

\* C2: between a disconnect() and the next connect() call of the user, no
\* reconnect timer of the client fires a connect() attempt.
C2_NoConnectAfterDisconnect ==
    [][ afterDisconnect => ~(\E orphan \in BOOLEAN : ReconnectTimerFires(orphan)) ]_vars

\* C8: when the open event of transport t is processed, the subscribe
\* messages written on t are exactly one per key of the registry, in the
\* registry's iteration order.
C8_OpenReplaysRegistry ==
    [][ \A t \in Transports :
            WsOpen(t) => SubscribesOn(sent', t)
                           = [ i \in 1..Len(subscriptions) |->
                                 MsgForKey(subscriptions[i].key) ] ]_vars

\* C9: while disconnect() has never been called, no key is announced on two
\* open transports: a second connect() does not announce again a key that
\* the first one announced.
C9_NoDuplicateAnnounce ==
    reconnect => \A t1, t2 \in Transports :
                     ( t1 # t2 /\ readyState[t1] = "OPEN" /\ readyState[t2] = "OPEN" )
                     => announced[t1] \cap announced[t2] = {}

\* C10: whenever connected is true, every key of the registry has had its
\* subscribe message written to an open transport since that transport
\* opened.
C10_ConnectedImpliesAnnounced ==
    isConnected => \A i \in 1..Len(subscriptions) :
                       \E t \in Transports :
                           /\ readyState[t] = "OPEN"
                           /\ subscriptions[i].key \in announced[t]

\* the events a close emits whether or not reconnect attempts remain
OrdinaryCloseEvents == { "error", "disconnected" }

\* C15: when a transport closes with reconnection enabled and
\* reconnectAttempts at maxReconnectAttempts, no further attempt is scheduled
\* and the caller is told that the budget is exhausted: an event other than
\* the 'error' and 'disconnected' events of every close is emitted.
C15_ExhaustionSurfaced ==
    [][ \A t \in Transports :
            ( /\ WsClose(t) \/ WsConnectFail(t)
              /\ reconnect
              /\ reconnectAttempts >= maxReconnectAttempts )
            => /\ UNCHANGED <<reconnectTimeout, orphanTimers, reconnectAttempts, scheduled>>
               /\ \E i \in 1..Len(emitted') :
                      emitted'[i] \notin OrdinaryCloseEvents ]_vars

\* C16: a disconnect() that follows a disconnect() with no connect() call
\* of the user in between changes no field of the client, closes no
\* transport, touches no timer and emits no event.
C16_DisconnectIdempotent ==
    [][ ( afterDisconnect /\ disconnect )
        => /\ UNCHANGED <<ws, isConnected, reconnect, reconnectAttempts, scheduled,
                          heartbeatInterval, heartbeatTimers, reconnectTimeout, subscriptions,
                          readyState, orphanTimers>>
           /\ emitted' = <<>> ]_vars

\* what was written on transport t among `writes`
WritesOn(writes, t) == SelectSeq(writes, LAMBDA w : w.t = t)

\* the auth messages among `writes`
Auths(writes) == SelectSeq(writes, LAMBDA w : w.msg.op = "auth")

\* C19: with credentials configured, the open event of transport t writes
\* exactly one auth message, on t, before anything else written on t; with
\* no credentials configured no step writes an auth message.
C19_AuthFirstOnOpen ==
    [][ /\ ~hasAuth => Auths(sent') = <<>>
        /\ \A t \in Transports :
               ( WsOpen(t) /\ hasAuth )
               => /\ Len(Auths(sent')) = 1
                  /\ WritesOn(sent', t) # <<>>
                  /\ WritesOn(sent', t)[1].msg = AuthMsg ]_vars

\* C31: when disconnect() returns, no transport the client created is
\* connecting or open.
C31_DisconnectLeavesNoLiveTransport ==
    [][ disconnect
        => \A t \in Transports : readyState'[t] \notin { "CONNECTING", "OPEN" } ]_vars

\* C32: at most one reconnect timer is pending and reconnectTimeout is its
\* handle: no pending timer has lost its handle, and when disconnect() has
\* cleared reconnectTimeout no reconnect timer is pending.
C32_OnePendingReconnectTimer ==
    [][ /\ PendingTimers' <= 1
        /\ orphanTimers' = 0
        /\ disconnect => PendingTimers' = 0 ]_vars

\* C33: reconnectAttempts stays within 0..maxReconnectAttempts, and no more
\* than maxReconnectAttempts reconnect timers are set between two open
\* events, however the close events of the transports interleave.
C33_AttemptsWithinBudget ==
    /\ reconnectAttempts \in 0..maxReconnectAttempts
    /\ Len(scheduled) <= maxReconnectAttempts

\* C33 witness: the close events of two transports used up the budget; the
\* timer set by the first is still pending without a handle
C33_Witness ==
    /\ reconnect
    /\ reconnectAttempts = maxReconnectAttempts
    /\ Len(scheduled) = maxReconnectAttempts
    /\ orphanTimers > 0

\* C37: once disconnect() has been called (config.reconnect is false from
\* then on) no step sets a reconnect timer or counts an attempt, whatever
\* connect() calls and close events follow.
C37_NoReconnectAfterDisconnect ==
    [][ /\ disconnect => ~reconnect'
        /\ ~reconnect
           => /\ ~reconnect'
              /\ PendingTimers' <= PendingTimers
              /\ reconnectAttempts' <= reconnectAttempts
              /\ Len(scheduled') <= Len(scheduled) ]_vars

\* C37 witness: after a disconnect() the user connected again, the
\* transport opened and then closed, and no timer is pending
C37_Witness ==
    /\ ~reconnect
    /\ ~afterDisconnect
    /\ emitted = << "disconnected" >>
    /\ LiveTransports = {}
    /\ PendingTimers = 0
    /\ reconnectAttempts = 0

----------------------------------------------------------------------------
(* Reconnection of a client whose user calls connect() only while the      *)
(* client has no transport and no reconnect timer.  A timer that is        *)
(* pending fires after its delay unless it is cleared: the timer callback  *)
(* is weakly fair.                                                         *)

NoTransport == FreeSlots = Transports

TimerCallback == ReconnectTimerFires(FALSE) /\ UNCHANGED <<msgVars, reqVars, clientVars>>

NextLive ==
    \/ NoTransport /\ PendingTimers = 0 /\ connect /\ UNCHANGED <<msgVars, reqVars, clientVars>>
    \/ \E t \in Transports : WsOpen(t) /\ UNCHANGED <<msgVars, reqVars, clientVars>>
    \/ \E t \in Transports : WsClose(t) /\ UNCHANGED <<msgVars, reqVars, clientVars>>
    \/ \E t \in Transports : WsConnectFail(t) /\ UNCHANGED <<msgVars, reqVars, clientVars>>
    \/ \E t \in Transports : WsError(t) /\ UNCHANGED <<msgVars, reqVars, clientVars>>
    \/ TimerCallback
    \/ disconnect /\ UNCHANGED <<msgVars, reqVars, clientVars>>
    \/ \E c \in Channels, h \in Handlers, m \in Markets :
           subscribe(c, h, m) /\ UNCHANGED <<msgVars, reqVars, clientVars>>
    \/ \E c \in Channels, h \in Handlers \cup {NoHandler}, m \in Markets :
           unsubscribe(c, h, m) /\ UNCHANGED <<msgVars, reqVars, clientVars>>

SpecLive == Init /\ [][NextLive]_vars /\ WF_vars(TimerCallback)

\* the timer callback has called connect(): the client holds a transport
\* that is connecting
ReconnectUnderWay ==
    /\ reconnectTimeout = "done"
    /\ ws # 0
    /\ readyState[ws] = "CONNECTING"

\* C14: a close (of an open transport or of a failed attempt) that finds
\* reconnection enabled and reconnectAttempts below maxReconnectAttempts
\* counts one more attempt and leaves a reconnect timer pending; a pending
\* timer leads to connect() being called by the timer, or to disconnect().
C14_ReconnectScheduledAndRuns ==
    /\ [][ \A t \in Transports :
               ( /\ WsClose(t) \/ WsConnectFail(t)
                 /\ reconnect
                 /\ reconnectAttempts < maxReconnectAttempts )
               => /\ reconnectTimeout' = "pending"
                  /\ reconnectAttempts' = reconnectAttempts + 1 ]_vars
    /\ (reconnectTimeout = "pending") ~> (afterDisconnect \/ ReconnectUnderWay)

\* C14 witness: the first reconnect attempt failed and the timer scheduled
\* by its close has called connect() for the last attempt of the budget
C14_Witness ==
    /\ ReconnectUnderWay
    /\ reconnectAttempts = maxReconnectAttempts
    /\ ~afterDisconnect
    /\ subscriptions # <<>>

----------------------------------------------------------------------------
(* Inbound frames: the 'message' handler of a transport (lines 112-132)    *)
(* and handleMessage (lines 294-343).  A frame is the text the peer sent:  *)
(* the JSON of a message object, the JSON of null, or text that is not     *)
(* JSON.  A message that carries no sequence has sequence 0, which the     *)
(* code treats alike (line 337).  thr is the set of handlers that throw    *)
(* when they are handed the frame's data.                                  *)

MessageTypes == { "subscribed", "unsubscribed", "error", "update" }

\* sequence numbers a frame may carry
SequenceNumbers == { 1, 2 }

NotJson == [ json |-> "invalid", type |-> "", channel |-> <<>>, market |-> <<>>,
             sequence |-> 0 ]

JsonNull == [ json |-> "null", type |-> "", channel |-> <<>>, market |-> <<>>,
              sequence |-> 0 ]

\* data frames of every market, control frames (which name no market)
Frames ==
    { NotJson, JsonNull }
    \cup [ json : { "object" }, type : { "update" }, channel : Channels,
           market : Markets, sequence : { 0 } \cup SequenceNumbers ]
    \cup [ json : { "object" }, type : MessageTypes \ { "update" }, channel : Channels,
           market : { <<>> }, sequence : { 0 } \cup SequenceNumbers ]

\* the handlers that may throw on a frame: a frame that is not a data frame
\* reaches no handler
Throwers(raw) == IF raw.type = "update" THEN SUBSET TwoHandlers ELSE { {} }

\* faulty variant of JsonParseThrows: text that is not JSON is handled as
\* if it were a message
JsonParseThrows_never(raw) == FALSE

\* JSON.parse(strData) throws: line 125
JsonParseThrows(raw) == raw.json = "invalid"

\* the key a data message is routed by: lines 317-320
RouteKey(message) == getSubscriptionKey(message.channel, message.market)

\* the place in hs of the first handler that throws, 0 when none does
FirstThrowing(hs, thr) ==
    IF \E i \in 1..Len(hs) : hs[i] \in thr
    THEN CHOOSE i \in 1..Len(hs) :
             hs[i] \in thr /\ \A j \in 1..(i - 1) : hs[j] \notin thr
    ELSE 0

\* this.emit('error', error) throws the error when no listener is registered
EmitErrorThrows(listener) == ~listener

\* handlers.forEach (lines 323-334): the handlers that are called.  The
\* catch block calls emit('error'); when that throws, forEach is left.
DispatchTo(hs, thr, listener) ==
    IF FirstThrowing(hs, thr) # 0 /\ EmitErrorThrows(listener)
    THEN SubSeq(hs, 1, FirstThrowing(hs, thr))
    ELSE hs

\* the 'error' events of a dispatch that ran to its end
DispatchErrors(hs, thr) ==
    [ i \in 1..Len(SelectSeq(hs, LAMBDA h : h \in thr)) |-> "error" ]

\* if (message.sequence) this.sequenceNumber = message.sequence: lines 337-339
NextSequence(current, carried) == IF carried # 0 THEN carried ELSE current

\* handleMessage(message): lines 294-343
handleMessage(message, thr) ==
    LET hs == HandlersOf(subscriptions, RouteKey(message))
        escapes == FirstThrowing(hs, thr) # 0 /\ EmitErrorThrows(errorListener)
    IN IF message.type \in { "subscribed", "unsubscribed" }
       THEN /\ emitted' = << message.type >>
            /\ invoked' = <<>>
            /\ thrown' = FALSE
            /\ UNCHANGED sequenceNumber
       ELSE IF message.type = "error"
       THEN /\ emitted' = IF EmitErrorThrows(errorListener) THEN <<>> ELSE << "error" >>
            /\ invoked' = <<>>
            /\ thrown' = EmitErrorThrows(errorListener)
            /\ UNCHANGED sequenceNumber
       ELSE /\ invoked' = DispatchTo(hs, thr, errorListener)
            /\ thrown' = escapes
            /\ emitted' = IF escapes THEN <<>>
                          ELSE DispatchErrors(hs, thr) \o << "message" >>
            /\ sequenceNumber' = IF escapes THEN sequenceNumber
                                 ELSE NextSequence(sequenceNumber, message.sequence)

\* transport t delivers a frame: lines 112-132.  Whatever is thrown by
\* JSON.parse or by handleMessage (message.type of null is a TypeError) is
\* caught at line 127.
WsMessage(t, raw, thr) ==
    /\ readyState[t] \in { "OPEN", "CLOSING" }
    /\ highestSeen' = IF raw.sequence > highestSeen THEN raw.sequence ELSE highestSeen
    /\ parseFailed' = (parseFailed \/ JsonParseThrows(raw))
    /\ IF JsonParseThrows(raw)
       THEN /\ invoked' = <<>>
            /\ emitted' = <<>>
            /\ thrown' = FALSE
            /\ UNCHANGED sequenceNumber
       ELSE IF raw = JsonNull
       THEN /\ invoked' = <<>>
            /\ emitted' = <<>>
            /\ thrown' = TRUE
            /\ UNCHANGED sequenceNumber
       ELSE handleMessage(raw, thr)
    /\ sent' = <<>>
    /\ UNCHANGED <<ws, isConnected, reconnect, reconnectAttempts, scheduled, heartbeatInterval, heartbeatTimers,
                   reconnectTimeout, subscriptions, hasAuth, reconnectDelay, maxReconnectAttempts, readyState,
                   orphanTimers, announced, afterDisconnect, errorListener,
                   lastRegistryOp, connectPromise>>

----------------------------------------------------------------------------
(* Clients constructed with { reconnect: false } and no credentials, whose *)
(* keys may have two handlers and whose user calls connect() only while    *)
(* no transport is connecting or open.                                     *)
(*   SpecRegistry: the user subscribes, unsubscribes and disconnects;      *)
(*   SpecDispatch: the user subscribes to the trades of one market and     *)
(*     the transport delivers frames; the user may or may not have         *)
(*     registered an 'error' listener.                                     *)

InitNoReconnect ==
    /\ ws = 0
    /\ isConnected = FALSE
    /\ reconnect = FALSE
    /\ reconnectAttempts = 0
    /\ heartbeatInterval = FALSE
    /\ reconnectTimeout = "undefined"
    /\ subscriptions = <<>>
    /\ hasAuth = FALSE
    /\ readyState = [ t \in Transports |-> "NONE" ]
    /\ orphanTimers = 0
    /\ sent = <<>>
    /\ announced = [ t \in Transports |-> {} ]
    /\ afterDisconnect = FALSE
    /\ emitted = <<>>
    /\ reconnectDelay = DefaultReconnectDelay
    /\ maxReconnectAttempts = MaxReconnectAttempts
    /\ heartbeatTimers = 0
    /\ scheduled = <<>>

InitRegistry == InitNoReconnect /\ IdleMsg /\ IdleRequest /\ IdleClient

\* the user calls subscribe; lastRegistryOp remembers the call when the key
\* had no handler ("subscribed") or only the handler subscribed
\* ("resubscribed") before it
UserSubscribe(channel, handler, market) ==
    /\ subscribe(channel, handler, market)
    /\ lastRegistryOp' =
           LET key == getSubscriptionKey(channel, market)
           IN IF HandlersOf(subscriptions, key) = <<>>
              THEN [ key |-> key, handler |-> handler, phase |-> "subscribed" ]
              ELSE IF HandlersOf(subscriptions, key) = << handler >>
              THEN [ key |-> key, handler |-> handler, phase |-> "resubscribed" ]
              ELSE NoRegistryOp
    /\ invoked' = <<>>
    /\ thrown' = FALSE
    /\ UNCHANGED <<sequenceNumber, errorListener, highestSeen, parseFailed, connectPromise>>

\* the user calls unsubscribe; lastRegistryOp remembers that the call undid
\* the subscribe before it ("unsubscribed", "unsubscribedOnce"), or that it
\* named one of the two handlers of its key ("removedOneOfTwo")
UserUnsubscribe(channel, handler, market) ==
    /\ unsubscribe(channel, handler, market)
    /\ lastRegistryOp' =
           LET key == getSubscriptionKey(channel, market)
               hs == HandlersOf(subscriptions, key)
           IN IF lastRegistryOp = [ key |-> key, handler |-> handler,
                                   phase |-> "subscribed" ]
              THEN [ lastRegistryOp EXCEPT !.phase = "unsubscribed" ]
              ELSE IF lastRegistryOp = [ key |-> key, handler |-> handler,
                                        phase |-> "resubscribed" ]
              THEN [ lastRegistryOp EXCEPT !.phase = "unsubscribedOnce" ]
              ELSE IF Len(hs) = 2 /\ hs[1] # hs[2] /\ handler \in { hs[1], hs[2] }
              THEN [ key |-> key, handler |-> handler, phase |-> "removedOneOfTwo" ]
              ELSE NoRegistryOp
    /\ invoked' = <<>>
    /\ thrown' = FALSE
    /\ UNCHANGED <<sequenceNumber, errorListener, highestSeen, parseFailed, connectPromise>>

NextRegistry ==
    \/ LiveTransports = {} /\ connect /\ UNCHANGED <<msgVars, reqVars, clientVars>>
    \/ \E t \in Transports : WsOpen(t) /\ UNCHANGED <<msgVars, reqVars, clientVars>>
    \/ \E t \in Transports : WsClose(t) /\ UNCHANGED <<msgVars, reqVars, clientVars>>
    \/ disconnect /\ UNCHANGED <<msgVars, reqVars, clientVars>>
    \/ \E c \in Channels, h \in TwoHandlers, m \in Markets :
           UserSubscribe(c, h, m) /\ UNCHANGED <<reqVars, clientVars>>
    \/ \E c \in Channels, h \in TwoHandlers \cup {NoHandler}, m \in Markets :
           UserUnsubscribe(c, h, m) /\ UNCHANGED <<reqVars, clientVars>>

SpecRegistry == InitRegistry /\ [][NextRegistry]_vars

\* the market whose trades the user of SpecDispatch subscribes to
DispatchMarket == <<"BTC-USD.P">>

InitDispatch ==
    /\ InitNoReconnect
    /\ sequenceNumber = 0
    /\ errorListener \in BOOLEAN
    /\ invoked = <<>>
    /\ thrown = FALSE
    /\ highestSeen = 0
    /\ parseFailed = FALSE
    /\ lastRegistryOp = NoRegistryOp
    /\ connectPromise = NoPromise
    /\ IdleRequest
    /\ IdleClient

NextDispatch ==
    \/ LiveTransports = {} /\ connect /\ UNCHANGED <<msgVars, reqVars, clientVars>>
    \/ \E t \in Transports : WsOpen(t) /\ UNCHANGED <<msgVars, reqVars, clientVars>>
    \/ \E t \in Transports : WsClose(t) /\ UNCHANGED <<msgVars, reqVars, clientVars>>
    \/ \E c \in Channels, h \in TwoHandlers :
           UserSubscribe(c, h, DispatchMarket) /\ UNCHANGED <<reqVars, clientVars>>
    \/ \E c \in Channels, h \in TwoHandlers \cup {NoHandler} :
           UserUnsubscribe(c, h, DispatchMarket) /\ UNCHANGED <<reqVars, clientVars>>
    \/ \E t \in Transports, raw \in Frames :
           \E thr \in Throwers(raw) : WsMessage(t, raw, thr) /\ UNCHANGED <<reqVars, clientVars>>

SpecDispatch == InitDispatch /\ [][NextDispatch]_vars

----------------------------------------------------------------------------
(* Properties of the registry operations, checked under SpecRegistry.      *)

\* C11: subscribe(channel, handler, market) writes one subscribe message,
\* on the client's transport, when the key had no entry before the call and
\* the client is connected, and writes nothing otherwise.
C11_SubscribeSendsIffFirst ==
    [][ \A c \in Channels, h \in TwoHandlers, m \in Markets :
            UserSubscribe(c, h, m)
            => sent' = IF ~HasKey(subscriptions, getSubscriptionKey(c, m)) /\ isConnected
                       THEN << [ t |-> ws, msg |-> SubscribeMsg(c, m) ] >>
                       ELSE <<>> ]_vars

\* C12: unsubscribe(channel, handler?, market) writes one unsubscribe
\* message, on the client's transport, when the call deleted an entry the
\* registry had and the client is connected, and writes nothing otherwise.
C12_UnsubscribeSendsIffDeleted ==
    [][ \A c \in Channels, h \in TwoHandlers \cup {NoHandler}, m \in Markets :
            UserUnsubscribe(c, h, m)
            => sent' = IF /\ HasKey(subscriptions, getSubscriptionKey(c, m))
                          /\ ~HasKey(subscriptions', getSubscriptionKey(c, m))
                          /\ isConnected
                       THEN << [ t |-> ws, msg |-> UnsubscribeMsg(c, m) ] >>
                       ELSE <<>> ]_vars

\* C20: after subscribe(k, h) on a key with no other handler, followed by
\* unsubscribe(k, h), the registry has no entry for k.
C20_SubscribeUnsubscribeRoundTrip ==
    lastRegistryOp.phase \in { "unsubscribed", "unsubscribedOnce" }
    => ~HasKey(subscriptions, lastRegistryOp.key)

\* C20 witness: the round trip was made on the key of a market, by the
\* second handler, while the other key keeps its entry
C20_Witness ==
    /\ lastRegistryOp = [ key |-> <<"tradesPerps", Sep, "BTC-USD.P">>,
                         handler |-> "h2", phase |-> "unsubscribed" ]
    /\ RegistryKeys(subscriptions) = << <<"tradesPerps">> >>

----------------------------------------------------------------------------
(* Properties of inbound frame handling, checked under SpecDispatch.       *)

\* C13: when a data frame is dispatched and a handler of its key throws,
\* every handler of the key is called, an 'error' event is emitted for the
\* exception and no exception leaves handleMessage, with or without an
\* 'error' listener.
C13_HandlerIsolation ==
    [][ \A t \in Transports, raw \in Frames : \A thr \in Throwers(raw) :
            ( /\ WsMessage(t, raw, thr)
              /\ raw.type = "update"
              /\ FirstThrowing(HandlersOf(subscriptions, RouteKey(raw)), thr) # 0 )
            => /\ invoked' = HandlersOf(subscriptions, RouteKey(raw))
               /\ \E i \in 1..Len(emitted') : emitted'[i] = "error"
               /\ ~thrown' ]_vars

\* C17: a frame that does not parse changes no field of the client, reaches
\* no handler and emits nothing; a data frame for a key of the registry
\* that arrives after such a frame is handed to the key's handlers: to the
\* first of them always, to all of them when none throws or an 'error'
\* listener is registered.
C17_ParseFailureDropped ==
    [][ \A t \in Transports, raw \in Frames : \A thr \in Throwers(raw) :
            WsMessage(t, raw, thr)
            => /\ raw = NotJson
                  => /\ UNCHANGED <<ws, isConnected, reconnect, reconnectAttempts, scheduled,
                                    heartbeatInterval, heartbeatTimers, reconnectTimeout, subscriptions,
                                    readyState, orphanTimers, sequenceNumber>>
                     /\ invoked' = <<>>
                     /\ emitted' = <<>>
                     /\ sent' = <<>>
               /\ ( /\ parseFailed
                    /\ raw.type = "update"
                    /\ HasKey(subscriptions, RouteKey(raw)) )
                  => /\ invoked' # <<>>
                     /\ invoked'[1] = HandlersOf(subscriptions, RouteKey(raw))[1]
                     /\ ( \/ errorListener
                          \/ FirstThrowing(HandlersOf(subscriptions, RouteKey(raw)), thr) = 0 )
                        => invoked' = HandlersOf(subscriptions, RouteKey(raw)) ]_vars

\* C17 witness: after a frame that did not parse, a data frame carrying a
\* sequence number was handed to both handlers of its key
C17_Witness ==
    /\ parseFailed
    /\ invoked = <<"h2", "h1">>
    /\ emitted = <<"message">>
    /\ sequenceNumber = 2

\* C18: the sequence getter never decreases and equals the highest sequence
\* number carried by the frames received so far.
C18_SequenceIsHighestSeen ==
    /\ [][ sequenceNumber' >= sequenceNumber ]_vars
    /\ [](sequenceNumber = highestSeen)

\* the handler of TwoHandlers that is not h
OtherHandler(h) == CHOOSE x \in TwoHandlers : x # h

\* a delivery of a data frame routed by the key of the last registry call
DataFrameForLastKey(t, raw, thr) ==
    /\ WsMessage(t, raw, thr)
    /\ raw.type = "update"
    /\ getSubscriptionKey(raw.channel, raw.market) = lastRegistryOp.key

\* C21: when a key has the two handlers h1 and h2, unsubscribe(k, h1) leaves
\* the key in the registry with h2 alone, and every data frame for k that
\* arrives before the next registry call invokes h2 once and h1 not at all.
C21_RemovingOneHandlerKeepsTheOther ==
    [][ /\ lastRegistryOp'.phase = "removedOneOfTwo"
           => /\ HasKey(subscriptions', lastRegistryOp'.key)
              /\ HandlersOf(subscriptions', lastRegistryOp'.key)
                     = << OtherHandler(lastRegistryOp'.handler) >>
        /\ \A t \in Transports, raw \in Frames : \A thr \in Throwers(raw) :
               ( /\ lastRegistryOp.phase = "removedOneOfTwo"
                 /\ DataFrameForLastKey(t, raw, thr) )
               => invoked' = << OtherHandler(lastRegistryOp.handler) >> ]_vars

\* C21 witness: h1 was removed from a key that had h1 and h2, and a data
\* frame for the key was then handed to h2 alone
C21_Witness ==
    /\ lastRegistryOp = [ key |-> getSubscriptionKey(<<"tradesPerps">>, DispatchMarket),
                          handler |-> "h1", phase |-> "removedOneOfTwo" ]
    /\ invoked = << "h2" >>
    /\ emitted = << "message" >>

\* C22: no entry of the registry has an empty set of handlers, whatever
\* subscribe and unsubscribe calls (with or without a handler), frames and
\* connection events came before.
C22_NoEmptyHandlerSet ==
    \A i \in 1..Len(subscriptions) : subscriptions[i].handlers # <<>>

\* C22 witness: the last handler of the only key was unsubscribed while
\* connected, the entry is gone and a data frame for the key reached nobody
C22_Witness ==
    /\ lastRegistryOp.phase = "unsubscribed"
    /\ subscriptions = <<>>
    /\ isConnected
    /\ invoked = <<>>
    /\ emitted = << "message" >>

\* C23: subscribing a handler to a key whose set holds that handler alone
\* leaves one entry for the key, holding the handler once; every data frame
\* for the key invokes it once; one unsubscribe(key, handler) then deletes
\* the entry.
C23_SameHandlerTwice ==
    [][ /\ lastRegistryOp'.phase = "resubscribed"
           => /\ Cardinality({ i \in 1..Len(subscriptions') :
                                 subscriptions'[i].key = lastRegistryOp'.key }) = 1
              /\ HandlersOf(subscriptions', lastRegistryOp'.key)
                     = << lastRegistryOp'.handler >>
        /\ \A t \in Transports, raw \in Frames : \A thr \in Throwers(raw) :
               ( /\ lastRegistryOp.phase = "resubscribed"
                 /\ DataFrameForLastKey(t, raw, thr) )
               => invoked' = << lastRegistryOp.handler >>
        /\ lastRegistryOp'.phase = "unsubscribedOnce"
           => ~HasKey(subscriptions', lastRegistryOp'.key) ]_vars

\* C23 witness: h2 was subscribed a second time to its key and a data frame
\* for the key, on which h2 throws, was handed to it once
C23_Witness ==
    /\ lastRegistryOp.phase = "resubscribed"
    /\ lastRegistryOp.handler = "h2"
    /\ invoked = << "h2" >>
    /\ emitted = << "error", "message" >>

\* C24: a frame of type 'subscribed' or 'unsubscribed' reaches no handler
\* and is emitted as the event of that name; a frame of type 'error'
\* reaches no handler and is emitted as an 'error' event; a frame of any
\* other type is handed to the handlers of the key made of its channel and
\* its data.market.
C24_ControlFramesAndRouting ==
    [][ \A t \in Transports, raw \in Frames : \A thr \in Throwers(raw) :
            ( WsMessage(t, raw, thr) /\ raw.json = "object" )
            => /\ raw.type \in { "subscribed", "unsubscribed" }
                  => invoked' = <<>> /\ emitted' = << raw.type >>
               /\ raw.type = "error"
                  => invoked' = <<>> /\ (errorListener => emitted' = << "error" >>)
               /\ raw.type \notin { "subscribed", "unsubscribed", "error" }
                  => invoked' = HandlersOf(subscriptions,
                                           getSubscriptionKey(raw.channel, raw.market)) ]_vars

\* C39: a data frame with channel c and data.market m invokes the handlers
\* registered under the key of (c, m), each once and in full, and no
\* handler registered under another key: not those of c without a market
\* when the frame names a market, nor those of c with a market when it
\* names none.
C39_ExactKeyDispatch ==
    [][ \A t \in Transports, raw \in Frames : \A thr \in Throwers(raw) :
            ( WsMessage(t, raw, thr) /\ raw.type = "update" )
            => LET own == HandlersOf(subscriptions,
                                     getSubscriptionKey(raw.channel, raw.market))
               IN /\ \A i \in 1..Len(invoked') :
                         \E j \in 1..Len(own) : invoked'[i] = own[j]
                  /\ \A j \in 1..Len(own) :
                         Cardinality({ i \in 1..Len(invoked') : invoked'[i] = own[j] }) = 1
                  /\ Len(invoked') = Len(own) ]_vars

----------------------------------------------------------------------------
(* The registry across the life of a connection.  SpecLifecycle: a client  *)
(* with reconnection enabled whose user subscribes, unsubscribes, calls    *)
(* connect() while the client has no transport and no reconnect timer, and *)
(* calls disconnect(); transports open, deliver frames, report errors,     *)
(* fail to connect and close; reconnect timers fire.                       *)

NextLifecycle ==
    \/ NoTransport /\ PendingTimers = 0 /\ connect /\ UNCHANGED <<msgVars, reqVars, clientVars>>
    \/ \E t \in Transports : WsOpen(t) /\ UNCHANGED <<msgVars, reqVars, clientVars>>
    \/ \E t \in Transports : WsClose(t) /\ UNCHANGED <<msgVars, reqVars, clientVars>>
    \/ \E t \in Transports : WsConnectFail(t) /\ UNCHANGED <<msgVars, reqVars, clientVars>>
    \/ \E t \in Transports : WsError(t) /\ UNCHANGED <<msgVars, reqVars, clientVars>>
    \/ TimerCallback
    \/ disconnect /\ UNCHANGED <<msgVars, reqVars, clientVars>>
    \/ \E c \in Channels, h \in Handlers, m \in Markets :
           subscribe(c, h, m) /\ UNCHANGED <<msgVars, reqVars, clientVars>>
    \/ \E c \in Channels, h \in Handlers \cup {NoHandler}, m \in Markets :
           unsubscribe(c, h, m) /\ UNCHANGED <<msgVars, reqVars, clientVars>>
    \/ \E t \in Transports, raw \in Frames :
           \E thr \in Throwers(raw) : WsMessage(t, raw, thr) /\ UNCHANGED <<reqVars, clientVars>>

SpecLifecycle == Init /\ [][NextLifecycle]_vars

\* C36: a step that changes the subscription registry is a subscribe or an
\* unsubscribe call: open, close and error events, reconnect timers,
\* inbound frames, connect() and disconnect() leave every key and its
\* handlers as they were.
C36_OnlySubscribeChangesRegistry ==
    [][ subscriptions' # subscriptions
        => \E c \in Channels, m \in Markets :
               \/ \E h \in Handlers : subscribe(c, h, m)
               \/ \E h \in Handlers \cup {NoHandler} : unsubscribe(c, h, m) ]_vars

\* C36 witness: both keys are still registered after a connection that
\* delivered a frame which did not parse and frames up to sequence 2, was
\* lost, reconnected by a timer and finally disconnected by the user
C36_Witness ==
    /\ Len(subscriptions) = 2
    /\ afterDisconnect
    /\ parseFailed
    /\ highestSeen = 2
    /\ reconnectAttempts = 1
    /\ readyState = [ t \in Transports |-> "NONE" ]

----------------------------------------------------------------------------
(* Replay of the registry on open.  SpecReplay: a client constructed with  *)
(* { reconnect: false } whose user subscribes to the trades of no market,  *)
(* of a market and of a market whose name contains the separator, and      *)
(* calls connect() only while no transport is connecting or open.          *)

\* the markets passed to subscribe; the last one is the string 'BTC:USD'
ReplayMarkets == Markets \cup { <<"BTC", Sep, "USD">> }

NextReplay ==
    \/ LiveTransports = {} /\ connect /\ UNCHANGED <<msgVars, reqVars, clientVars>>
    \/ \E t \in Transports : WsOpen(t) /\ UNCHANGED <<msgVars, reqVars, clientVars>>
    \/ \E t \in Transports : WsClose(t) /\ UNCHANGED <<msgVars, reqVars, clientVars>>
    \/ \E c \in Channels, h \in Handlers, m \in ReplayMarkets :
           subscribe(c, h, m) /\ UNCHANGED <<msgVars, reqVars, clientVars>>
    \/ \E c \in Channels, h \in Handlers \cup {NoHandler}, m \in ReplayMarkets :
           unsubscribe(c, h, m) /\ UNCHANGED <<msgVars, reqVars, clientVars>>

SpecReplay == InitRegistry /\ [][NextReplay]_vars

\* the message subscribe(channel, handler, market) sends for the pair that
\* key was derived from
OriginalMsg(key) ==
    CHOOSE m \in { SubscribeMsg(c, mk) : c \in Channels, mk \in ReplayMarkets } :
        getSubscriptionKey(m.channel, m.market) = key

\* C34: the subscribe messages replayed when a transport opens carry, for
\* every key of the registry, the channel and the market of the subscribe
\* call that created the key, also when the market contains ':'.
C34_ReplayRecoversPair ==
    [][ \A t \in Transports :
            WsOpen(t) => SubscribesOn(sent', t)
                           = [ i \in 1..Len(subscriptions) |->
                                 OriginalMsg(subscriptions[i].key) ] ]_vars

----------------------------------------------------------------------------
(* Reconnect backoff.  SpecBackoff: clients constructed with a             *)
(* reconnectDelay and a maxReconnectAttempts of their own, whose user      *)
(* calls connect() only while the client has no transport and no reconnect *)
(* timer, and whose transports open, close and fail to connect.            *)

\* values of config.reconnectDelay (ms)
ReconnectDelays == { 1000, 5000 }

\* values of config.maxReconnectAttempts
AttemptBudgets == { 3, 7 }

InitBackoff ==
    /\ ws = 0
    /\ isConnected = FALSE
    /\ reconnect = TRUE
    /\ reconnectAttempts = 0
    /\ heartbeatInterval = FALSE
    /\ reconnectTimeout = "undefined"
    /\ subscriptions = <<>>
    /\ hasAuth = FALSE
    /\ readyState = [ t \in Transports |-> "NONE" ]
    /\ orphanTimers = 0
    /\ sent = <<>>
    /\ announced = [ t \in Transports |-> {} ]
    /\ afterDisconnect = FALSE
    /\ emitted = <<>>
    /\ reconnectDelay \in ReconnectDelays
    /\ maxReconnectAttempts \in AttemptBudgets
    /\ heartbeatTimers = 0
    /\ scheduled = <<>>
    /\ IdleMsg
    /\ IdleRequest
    /\ IdleClient

NextBackoff ==
    \/ NoTransport /\ PendingTimers = 0 /\ connect /\ UNCHANGED <<msgVars, reqVars, clientVars>>
    \/ \E t \in Transports : WsOpen(t) /\ UNCHANGED <<msgVars, reqVars, clientVars>>
    \/ \E t \in Transports : WsClose(t) /\ UNCHANGED <<msgVars, reqVars, clientVars>>
    \/ \E t \in Transports : WsConnectFail(t) /\ UNCHANGED <<msgVars, reqVars, clientVars>>
    \/ TimerCallback
    \/ disconnect /\ UNCHANGED <<msgVars, reqVars, clientVars>>

SpecBackoff == InitBackoff /\ [][NextBackoff]_vars

\* C26: the k-th reconnect timer set since the last open has the delay
\* reconnectDelay * 2^min(k-1, 5): 1000, 2000, 4000 ms for the first three
\* with a base of 1000, and never more than 32 * reconnectDelay.
C26_BackoffDelays ==
    /\ \A k \in 1..Len(scheduled) :
           /\ scheduled[k] = reconnectDelay * 2 ^ (IF k - 1 < 5 THEN k - 1 ELSE 5)
           /\ scheduled[k] <= 32 * reconnectDelay
    /\ (reconnectDelay = 1000 /\ Len(scheduled) >= 3)
       => SubSeq(scheduled, 1, 3) = << 1000, 2000, 4000 >>
    /\ reconnect => Len(scheduled) = reconnectAttempts

\* C26 witness: seven attempts in a row with a base of 1000 ms, the last two
\* at the cap
C26_Witness ==
    scheduled = << 1000, 2000, 4000, 8000, 16000, 32000, 32000 >>

\* C27: every open event sets the attempt counter to 0, whatever it was, so
\* that all maxReconnectAttempts attempts are available again; the reconnect
\* scheduled when that transport closes is attempt 1, with the base delay.
C27_OpenResetsAttempts ==
    [][ \A t \in Transports :
            /\ WsOpen(t) => reconnectAttempts' = 0 /\ scheduled' = <<>>
            /\ ( readyState[t] = "OPEN" /\ reconnect /\ WsClose(t) )
               => /\ reconnectAttempts' = 1
                  /\ scheduled' = << reconnectDelay >>
                  /\ reconnectTimeout' = "pending" ]_vars

\* C27 witness: the transport that a reconnect timer connected has just
\* opened, and the counter is 0
C27_Witness ==
    /\ reconnect
    /\ reconnectTimeout = "done"
    /\ emitted = << "connected" >>
    /\ isConnected
    /\ reconnectAttempts = 0
    /\ scheduled = <<>>

\* C25: at most one heartbeat timer is active, and only while connected is
\* true; once disconnect() has returned or a close event was processed no
\* timer is active, so that no probe fires before the next open event.
C25_OneHeartbeatWhileConnected ==
    [][ /\ heartbeatTimers' <= 1
        /\ heartbeatTimers' > 0 => isConnected'
        /\ ( \/ disconnect
             \/ \E t \in Transports : WsClose(t) \/ WsConnectFail(t) )
           => heartbeatTimers' = 0
        /\ (heartbeatTimers = 0 /\ heartbeatTimers' = 0) => ~HeartbeatTick ]_vars

\* C25 witness: two transports opened one after the other, one heartbeat
\* timer is active and it has just sent a probe
C25_Witness ==
    /\ \A t \in Transports : readyState[t] = "OPEN"
    /\ heartbeatTimers = 1
    /\ isConnected
    /\ \E i \in 1..Len(sent) : sent[i].msg = PingMsg

\* C30: connected is true exactly when the transport the client holds has
\* opened and has not closed, and the heartbeat runs exactly then: a close
\* event of a transport the client no longer holds changes neither.
C30_ConnectedTracksCurrentTransport ==
    /\ isConnected <=> (ws # 0 /\ readyState[ws] \in { "OPEN", "CLOSING" })
    /\ (ws # 0 /\ readyState[ws] = "OPEN") => heartbeatTimers = 1

----------------------------------------------------------------------------
(* The WebSocket methods of EnclaveClient (EnclaveClient.ts:722-862).  The *)
(* client constructs its WebSocketClient on the first connectWebSocket()   *)
(* and drops it in disconnectWebSocket(); the WebSocketClient variables    *)
(* describe the object this.wsClient refers to or, while it is undefined,  *)
(* the one the next connectWebSocket() constructs.                         *)
(*   SpecClient: clients with and without credentials, whose user calls    *)
(*   connectWebSocket() only while no transport or reconnect timer exists. *)

\* new Error('WebSocket not connected. Call connectWebSocket() first.')
NotConnectedError == "WebSocket not connected"

\* new Error('Authentication required for order subscription.'), and its
\* like for positions
AuthRequiredError == "Authentication required"

OrdersChannel == <<"ordersPerps">>

PositionsChannel == <<"positionsPerps">>

\* a method ends before it reaches the WebSocketClient: it throws error, or
\* returns when error is ""
ClientLeaves(method, error) ==
    /\ clientCall' = method
    /\ clientError' = error
    /\ sent' = <<>>
    /\ emitted' = <<>>
    /\ UNCHANGED <<ws, isConnected, reconnect, reconnectAttempts, scheduled,
                   heartbeatInterval, heartbeatTimers, reconnectTimeout, subscriptions,
                   hasAuth, reconnectDelay, maxReconnectAttempts, readyState,
                   orphanTimers, announced, afterDisconnect>>
    /\ UNCHANGED <<wsClient, errorBody, apiError>>

\* a method returns from its call of the WebSocketClient
ClientReturns(method) ==
    /\ clientCall' = method
    /\ clientError' = ""
    /\ UNCHANGED <<wsClient, errorBody, apiError>>

\* connectWebSocket(): lines 722-732
connectWebSocket ==
    /\ connect
    /\ wsClient' = TRUE
    /\ clientCall' = "connectWebSocket"
    /\ clientError' = ""
    /\ UNCHANGED <<errorBody, apiError>>

\* disconnectWebSocket(): lines 737-742.  The WebSocketClient is
\* disconnected and dropped, with its registry, its timers and its
\* transports.
disconnectWebSocket ==
    IF ~wsClient THEN ClientLeaves("disconnectWebSocket", "")
    ELSE
    /\ wsClient' = FALSE
    /\ clientCall' = "disconnectWebSocket"
    /\ clientError' = ""
    /\ ws' = 0
    /\ isConnected' = FALSE
    /\ reconnect' = TRUE
    /\ reconnectAttempts' = 0
    /\ heartbeatInterval' = FALSE
    /\ reconnectTimeout' = "undefined"
    /\ subscriptions' = <<>>
    /\ readyState' = [ t \in Transports |-> "NONE" ]
    /\ orphanTimers' = 0
    /\ sent' = <<>>
    /\ announced' = [ t \in Transports |-> {} ]
    /\ afterDisconnect' = FALSE
    /\ emitted' = <<>>
    /\ heartbeatTimers' = 0
    /\ scheduled' = <<>>
    /\ UNCHANGED <<hasAuth, reconnectDelay, maxReconnectAttempts, errorBody, apiError>>

\* subscribeTrades(market, handler): lines 757-762
subscribeTrades(market, handler) ==
    IF ~wsClient THEN ClientLeaves("subscribeTrades", NotConnectedError)
    ELSE /\ subscribe(<<"tradesPerps">>, handler, market)
         /\ ClientReturns("subscribeTrades")

\* unsubscribeTrades(market, handler?): lines 767-771
unsubscribeTrades(market, handler) ==
    IF ~wsClient THEN ClientLeaves("unsubscribeTrades", "")
    ELSE /\ unsubscribe(<<"tradesPerps">>, handler, market)
         /\ ClientReturns("unsubscribeTrades")

\* subscribeOrders(handler): lines 814-822
subscribeOrders(handler) ==
    IF ~wsClient THEN ClientLeaves("subscribeOrders", NotConnectedError)
    ELSE IF ~hasAuth THEN ClientLeaves("subscribeOrders", AuthRequiredError)
    ELSE /\ subscribe(OrdersChannel, handler, <<>>)
         /\ ClientReturns("subscribeOrders")

\* unsubscribeOrders(handler?): lines 827-831
unsubscribeOrders(handler) ==
    IF ~wsClient THEN ClientLeaves("unsubscribeOrders", "")
    ELSE /\ unsubscribe(OrdersChannel, handler, <<>>)
         /\ ClientReturns("unsubscribeOrders")

\* subscribePositions(handler): lines 845-853
subscribePositions(handler) ==
    IF ~wsClient THEN ClientLeaves("subscribePositions", NotConnectedError)
    ELSE IF ~hasAuth THEN ClientLeaves("subscribePositions", AuthRequiredError)
    ELSE /\ subscribe(PositionsChannel, handler, <<>>)
         /\ ClientReturns("subscribePositions")

\* unsubscribePositions(handler?): lines 858-862
unsubscribePositions(handler) ==
    IF ~wsClient THEN ClientLeaves("unsubscribePositions", "")
    ELSE /\ unsubscribe(PositionsChannel, handler, <<>>)
         /\ ClientReturns("unsubscribePositions")

NextClient ==
    \/ NoTransport /\ PendingTimers = 0 /\ connectWebSocket /\ UNCHANGED <<msgVars, reqVars>>
    \/ \E t \in Transports : WsOpen(t) /\ UNCHANGED <<msgVars, reqVars, clientVars>>
    \/ \E t \in Transports : WsClose(t) /\ UNCHANGED <<msgVars, reqVars, clientVars>>
    \/ TimerCallback
    \/ disconnectWebSocket /\ UNCHANGED <<msgVars, reqVars>>
    \/ \E h \in Handlers : subscribeTrades(DispatchMarket, h) /\ UNCHANGED <<msgVars, reqVars>>
    \/ \E h \in Handlers \cup {NoHandler} :
           unsubscribeTrades(DispatchMarket, h) /\ UNCHANGED <<msgVars, reqVars>>
    \/ \E h \in Handlers : subscribeOrders(h) /\ UNCHANGED <<msgVars, reqVars>>
    \/ \E h \in Handlers \cup {NoHandler} :
           unsubscribeOrders(h) /\ UNCHANGED <<msgVars, reqVars>>
    \/ \E h \in Handlers : subscribePositions(h) /\ UNCHANGED <<msgVars, reqVars>>
    \/ \E h \in Handlers \cup {NoHandler} :
           unsubscribePositions(h) /\ UNCHANGED <<msgVars, reqVars>>

SpecClient == Init /\ [][NextClient]_vars

\* C28: on a client configured without credentials subscribeOrders and
\* subscribePositions always throw the authentication-required error,
\* register no handler and send no message.
C28_PrivateSubscriptionNeedsAuth ==
    [][ \A h \in Handlers :
            ( ~hasAuth /\ (subscribeOrders(h) \/ subscribePositions(h)) )
            => /\ clientError' = AuthRequiredError
               /\ subscriptions' = subscriptions
               /\ sent' = <<>> ]_vars

----------------------------------------------------------------------------
(* EnclaveApiError (part_000:10-30).  Text is a sequence of tokens: a      *)
(* response body is a sequence of characters (UTF-16 code units, which is  *)
(* what length and substring count), the fixed parts of the message are    *)
(* one token each.                                                         *)
(*   SpecError: errors constructed from response bodies of every length    *)
(*   up to MaxBodyLength, with and without a status code.                  *)

\* the longest response body constructed
MaxBodyLength == 203

\* responseBody.substring(0, 200), responseBody.length > 200
ResponseLimit == 200

Ellipsis == << ".", ".", "." >>

BodyAlphabet == << "a", "b", "c", "d", "e", "f", "g" >>

\* bodies of one repeated character, of dots (the characters of the
\* ellipsis), and of characters that differ from their neighbours
ResponseBodies ==
    UNION { { [ i \in 1..n |-> "x" ],
              [ i \in 1..n |-> "." ],
              [ i \in 1..n |-> BodyAlphabet[(i % Len(BodyAlphabet)) + 1] ] } :
            n \in 0..MaxBodyLength }

\* statusCode: absent (0 is as falsy as undefined) or 404
StatusCodes == { 0, 404 }

\* String.prototype.substring(start, end) for 0 <= start <= end
substring(str, start, end) == SubSeq(str, start + 1, Min(end, Len(str)))

\* faulty variant of NeedsEllipsis: a body of exactly the limit is marked
NeedsEllipsis_atLimit(body) == Len(body) >= ResponseLimit

\* responseBody.length > 200: line 22
NeedsEllipsis(body) == Len(body) > ResponseLimit

\* enhancedMessage: lines 17-23
enhancedMessage(message, endpoint, method, statusCode, responseBody) ==
    << "Enclave API Error: ", message, "\n",
       "  Endpoint: ", method, " ", endpoint, "\n" >>
    \o (IF statusCode # 0
        THEN << "  Status Code: ", ToString(statusCode), "\n" >>
        ELSE <<>>)
    \o (IF responseBody # <<>>
        THEN << "  Response: " >>
             \o substring(responseBody, 0, ResponseLimit)
             \o (IF NeedsEllipsis(responseBody) THEN Ellipsis ELSE <<>>)
        ELSE <<>>)

\* new EnclaveApiError('Not Found', '/v1/markets', 'GET', statusCode, body)
\* with the body at hand: super(enhancedMessage) and the assignments of
\* lines 25-30
ConstructError(statusCode) ==
    /\ apiError' =
           [ message |-> enhancedMessage("Not Found", "/v1/markets", "GET",
                                         statusCode, errorBody),
             statusCode |-> statusCode,
             responseBody |-> errorBody ]
    /\ UNCHANGED <<wsClient, clientCall, clientError, errorBody>>

InitError ==
    /\ InitWs
    /\ hasAuth = FALSE
    /\ IdleMsg
    /\ IdleRequest
    /\ wsClient = FALSE
    /\ clientCall = ""
    /\ clientError = ""
    /\ errorBody \in ResponseBodies
    /\ apiError = NoApiError

NextError ==
    \E statusCode \in StatusCodes :
        ConstructError(statusCode) /\ UNCHANGED <<wsVars, msgVars, reqVars>>

SpecError == InitError /\ [][NextError]_vars

\* the text of a message after its "  Response: " label
ShownBody(message) ==
    LET at == CHOOSE i \in 1..Len(message) : message[i] = "  Response: "
    IN SubSeq(message, at + 1, Len(message))

\* C29: the message of an EnclaveApiError built with a response body of
\* length L shows the first min(L, 200) characters of the body, followed by
\* '...' if and only if L > 200; the responseBody field holds the whole
\* body.
C29_MessageTruncatesBody ==
    apiError # NoApiError
    => LET L == Len(errorBody)
           n == IF L < 200 THEN L ELSE 200
       IN /\ apiError.responseBody = errorBody
          /\ L > 0
             => /\ \E i \in 1..Len(apiError.message) : apiError.message[i] = "  Response: "
                /\ SubSeq(ShownBody(apiError.message), 1, n) = SubSeq(errorBody, 1, n)
                /\ SubSeq(ShownBody(apiError.message), n + 1,
                          Len(ShownBody(apiError.message)))
                       = IF L > 200 THEN << ".", ".", "." >> ELSE <<>>

\* C29 witness: a body of 201 characters that ends in dots is cut to 200,
\* marked with the ellipsis and kept whole in responseBody
C29_Witness ==
    /\ Len(errorBody) = 201
    /\ errorBody[201] = "."
    /\ apiError.statusCode = 404
    /\ apiError.responseBody = errorBody
    /\ Len(ShownBody(apiError.message)) = 203

----------------------------------------------------------------------------
(* EnclaveClient.request (EnclaveClient.ts:67-173).  Every attempt is one  *)
(* invocation of request(): it returns its own promise and issues its own  *)
(* https request.  A retry is a setTimeout whose callback invokes          *)
(* request() with attempt + 1 and hands the outcome of the new promise to  *)
(* the resolve and reject of the one before.                               *)

\* configured base delays (ms) of the executor under check
RetryDelays == { 1000, 250 }
Methods == { "GET", "POST" }
Paths == { "/v1/markets" }
\* final status codes the remote side may answer with
Statuses == { 200, 299, 300, 429, 500 }
\* response bodies: empty, JSON carrying an error field, and not JSON
Bodies == { "", "{\"error\":\"e\"}", "<html>" }
\* causes of a transport-level 'error' event
Causes == { "ECONNREFUSED", "ENOTFOUND" }
\* the 'error' a destroyed request emits
SocketHangUp == "ECONNRESET"

\* JSON.parse(data) succeeds
JsonValid(data) == data = "{\"error\":\"e\"}"

\* JSON.parse(data), for data that parses
JsonParse(data) == [ kind |-> "json", error |-> "e" ]

\* data ? JSON.parse(data) : {}      (line 122)
ParsedBody(data) == IF data = "" THEN [ kind |-> "json", error |-> "" ] ELSE JsonParse(data)

\* line 122 throws
ParseThrows(data) == data # "" /\ ~JsonValid(data)

\* new EnclaveApiError(message, endpoint, method, statusCode, responseBody)
EnclaveApiError(message, endpoint, method, statusCode, responseBody) ==
    [ kind |-> "EnclaveApiError", message |-> message, endpoint |-> endpoint,
      method |-> method, statusCode |-> statusCode, responseBody |-> responseBody ]

\* parsed.error ?? parsed.message ?? data ?? 'Request failed'   (lines 127-131)
errorMessage(data) ==
    IF ParsedBody(data).error # "" THEN ParsedBody(data).error ELSE data

\* the error a transport-level failure is reported with: the cause itself
TransportError(cause) == [ kind |-> "Error", message |-> cause ]

\* new Error(`Request timeout after ${this.timeout}ms`)    (line 165)
TimeoutError == [ kind |-> "Error", message |-> "Request timeout" ]

NoValue == [ kind |-> "none" ]

PendingPromise == [ state |-> "pending", value |-> NoValue ]

\* faulty variant of settle: the outcome of a retry is not handed on to the
\* promises of the attempts before it
settle_ownOnly(p, i, st, v) ==
    [ p EXCEPT ![i] = [ state |-> st, value |-> v ] ]

\* resolve or reject of the promise of attempt i: a settled promise stays as
\* it is; the promise of attempt j < i adopts the outcome through
\* .then(resolve).catch(reject) (lines 113-115, 152-154) if it is pending
settle(p, i, st, v) ==
    [ j \in 1..Len(p) |->
        IF j <= i /\ \A k \in j..i : p[k].state = "pending"
        THEN [ state |-> st, value |-> v ]
        ELSE p[j] ]

\* faulty variant of backoff: the exponent is the attempt number instead of attempt - 1
backoff_exponentOffByOne(i) == retryDelay * 2 ^ i

\* this.retryDelay * Math.pow(2, attempt - 1)     (lines 117, 156)
backoff(i) == retryDelay * 2 ^ (i - 1)

\* faulty variant of retryOnResponse: the last permitted retry is not made
retryOnResponse_oneRetryShort(status, i) == status = 429 /\ i < maxRetries

\* faulty variant of retryOnResponse: every response outside the success
\* range is retried
retryOnResponse_anyFailure(status, i) ==
    ~(status >= 200 /\ status < 300) /\ i <= maxRetries

\* the retry condition on a response: line 110
retryOnResponse(status, i) == status = 429 /\ i <= maxRetries

\* faulty variant of retryOnError: transport errors are counted on their
\* own, apart from the 429 answers
retryOnError_ownCounter(i) ==
    Cardinality({ j \in 1..Len(outcomes) : outcomes[j] = "error" }) < maxRetries

\* faulty variant of retryOnError: one retry more than configured
retryOnError_oneRetryMore(i) == i <= maxRetries + 1

\* the retry condition on a transport error: line 149
retryOnError(i) == i <= maxRetries

IsSuccess(status) == status >= 200 /\ status < 300

RequestInit ==
    /\ maxRetries \in 0..MaxMaxRetries
    /\ retryDelay \in RetryDelays
    /\ call = NoCall
    /\ attempt = 0
    /\ reqState = <<>>
    /\ promise = <<>>
    /\ retryTimer = FALSE
    /\ delays = <<>>
    /\ outcomes = <<>>
    /\ lastAnswer = NoAnswer

\* the WebSocketClient is not used while the request executor is checked
IdleWs == InitWs /\ hasAuth = FALSE

InitRequest == RequestInit /\ IdleWs /\ IdleMsg /\ IdleClient

\* request(method, path, body, attempt): lines 67-97, 168-172
issue ==
    /\ attempt' = attempt + 1
    /\ reqState' = Append(reqState, "inflight")
    /\ promise' = Append(promise, PendingPromise)

\* the user calls request(method, path)
request(method, path) ==
    /\ attempt = 0
    /\ call' = [ method |-> method, path |-> path ]
    /\ issue
    /\ UNCHANGED <<maxRetries, retryDelay, retryTimer, delays, outcomes, lastAnswer>>

\* setTimeout(() => this.request(..., attempt + 1)..., delay)
scheduleRetry(i) ==
    /\ retryTimer' = TRUE
    /\ delays' = Append(delays, backoff(i))

\* res.on('end'): lines 104-145
ResEnd(i, status, data) ==
    /\ reqState[i] = "inflight"
    /\ reqState' = [ reqState EXCEPT ![i] = "ended" ]
    /\ lastAnswer' = [ kind |-> "response", status |-> status, data |-> data,
                       cause |-> "" ]
    /\ outcomes' = Append(outcomes, IF status = 429 THEN "429"
                                    ELSE IF IsSuccess(status) THEN "success"
                                    ELSE "failure")
    /\ IF retryOnResponse(status, i)
       THEN scheduleRetry(i) /\ UNCHANGED promise
       ELSE /\ UNCHANGED <<retryTimer, delays>>
            /\ promise' =
                 IF ParseThrows(data)
                 THEN settle(promise, i, "rejected",
                             EnclaveApiError("Failed to parse response",
                                             call.path, call.method, status, data))
                 ELSE IF IsSuccess(status)
                 THEN settle(promise, i, "resolved", ParsedBody(data))
                 ELSE settle(promise, i, "rejected",
                             EnclaveApiError(errorMessage(data),
                                             call.path, call.method, status, data))
    /\ UNCHANGED <<maxRetries, retryDelay, call, attempt>>

\* req.on('error'): lines 148-161
onError(i, cause) ==
    IF retryOnError(i)
    THEN scheduleRetry(i) /\ UNCHANGED promise
    ELSE /\ promise' = settle(promise, i, "rejected", TransportError(cause))
         /\ UNCHANGED <<retryTimer, delays>>

\* the https request of attempt i fails at the transport level
ReqError(i, cause) ==
    /\ reqState[i] = "inflight"
    /\ reqState' = [ reqState EXCEPT ![i] = "errored" ]
    /\ lastAnswer' = [ kind |-> "error", status |-> 0, data |-> "", cause |-> cause ]
    /\ outcomes' = Append(outcomes, "error")
    /\ onError(i, cause)
    /\ UNCHANGED <<maxRetries, retryDelay, call, attempt>>

\* req.on('timeout'): lines 163-166
ReqTimeout(i) ==
    /\ reqState[i] = "inflight"
    /\ reqState' = [ reqState EXCEPT ![i] = "destroyed" ]
    /\ lastAnswer' = [ kind |-> "timeout", status |-> 0, data |-> "", cause |-> "" ]
    /\ outcomes' = Append(outcomes, "timeout")
    /\ promise' = settle(promise, i, "rejected", TimeoutError)
    /\ UNCHANGED <<maxRetries, retryDelay, call, attempt, retryTimer, delays>>

\* req.destroy() before a response arrived makes the request emit 'error'
\* (socket hang up); after the response started it emits none.  Which of
\* the two happens is the environment's choice: this action may or may not
\* follow ReqTimeout.
ReqErrorAfterDestroy(i) ==
    /\ reqState[i] = "destroyed"
    /\ reqState' = [ reqState EXCEPT ![i] = "destroyedErrored" ]
    /\ lastAnswer' = [ kind |-> "error", status |-> 0, data |-> "",
                       cause |-> SocketHangUp ]
    /\ onError(i, SocketHangUp)
    /\ UNCHANGED <<maxRetries, retryDelay, call, attempt, outcomes>>

\* the setTimeout callback: lines 112-116, 151-155
RetryTimerFires ==
    /\ retryTimer
    /\ retryTimer' = FALSE
    /\ issue
    /\ UNCHANGED <<maxRetries, retryDelay, call, delays, outcomes, lastAnswer>>

NextRequest ==
    \/ \E m \in Methods, p \in Paths : request(m, p) /\ UNCHANGED <<wsVars, msgVars, clientVars>>
    \/ \E i \in 1..attempt, s \in Statuses, d \in Bodies :
           ResEnd(i, s, d) /\ UNCHANGED <<wsVars, msgVars, clientVars>>
    \/ \E i \in 1..attempt, c \in Causes : ReqError(i, c) /\ UNCHANGED <<wsVars, msgVars, clientVars>>
    \/ \E i \in 1..attempt : ReqTimeout(i) /\ UNCHANGED <<wsVars, msgVars, clientVars>>
    \/ \E i \in 1..attempt : ReqErrorAfterDestroy(i) /\ UNCHANGED <<wsVars, msgVars, clientVars>>
    \/ RetryTimerFires /\ UNCHANGED <<wsVars, msgVars, clientVars>>

SpecRequest == InitRequest /\ [][NextRequest]_vars

----------------------------------------------------------------------------
(* Properties of the request executor, checked under SpecRequest.          *)

\* every attempt so far was answered, the last one included
AllAnswered == Len(outcomes) = attempt /\ attempt >= 1

\* the waits scheduled after failed attempts 1..n under the documented policy
ExpectedDelays(n) == [ i \in 1..n |-> retryDelay * 2 ^ (i - 1) ]

\* the first n answers are of kind k
FirstAre(n, k) == \A i \in 1..n : outcomes[i] = k

\* C3: when the first n <= maxRetries attempts are answered 429 and attempt
\* n+1 with a 2xx response, the call has made exactly n+1 attempts, the wait
\* after failed attempt i was retryDelay * 2^(i-1), no further retry is
\* pending, and the call is resolved with the parsed body of that response
\* (a 2xx body that does not parse rejects the call as a parse failure).
C3_RateLimitedThenSuccess ==
    \A n \in 0..maxRetries :
        ( /\ Len(outcomes) = n + 1
          /\ FirstAre(n, "429")
          /\ outcomes[n + 1] = "success" )
        => /\ attempt = n + 1
           /\ ~retryTimer
           /\ delays = ExpectedDelays(n)
           /\ IF lastAnswer.data = "" \/ JsonValid(lastAnswer.data)
              THEN /\ promise[1].state = "resolved"
                   /\ promise[1].value = ParsedBody(lastAnswer.data)
              ELSE /\ promise[1].state = "rejected"
                   /\ promise[1].value.kind = "EnclaveApiError"

\* C3 witness: three 429 answers, then a success whose body parses, with
\* the delays d, 2d, 4d
C3_Witness ==
    /\ maxRetries = 3
    /\ outcomes = <<"429", "429", "429", "success">>
    /\ attempt = 4
    /\ delays = <<retryDelay, 2 * retryDelay, 4 * retryDelay>>
    /\ promise[1].state = "resolved"
    /\ JsonValid(lastAnswer.data)

\* C4: when every attempt is answered 429, at most maxRetries+1 attempts
\* are issued; until the last of them is answered the call stays pending,
\* and once attempt maxRetries+1 is answered the call is rejected with an
\* error carrying status 429 and that response's body, no retry pending.
C4_RateLimitExhausted ==
    FirstAre(Len(outcomes), "429")
    => /\ attempt <= maxRetries + 1
       /\ Len(outcomes) <= maxRetries
          => /\ promise = [ i \in 1..attempt |-> PendingPromise ]
             /\ delays = ExpectedDelays(Len(outcomes))
             /\ (AllAnswered => retryTimer)
       /\ Len(outcomes) = maxRetries + 1
          => /\ attempt = maxRetries + 1
             /\ ~retryTimer
             /\ promise[1].state = "rejected"
             /\ promise[1].value.kind = "EnclaveApiError"
             /\ promise[1].value.statusCode = 429
             /\ promise[1].value.responseBody = lastAnswer.data

\* C4 witness: maxRetries = 2, three 429 answers, the call rejected
C4_Witness ==
    /\ maxRetries = 2
    /\ outcomes = <<"429", "429", "429">>
    /\ attempt = 3
    /\ promise[1].state = "rejected"
    /\ promise[1].value.statusCode = 429

\* C5: once an attempt hit the local timeout, the call is rejected with the
\* timeout error and no further attempt is issued or scheduled for it.
C5_TimeoutNotRetried ==
    \A i \in 1..Len(outcomes) :
        outcomes[i] = "timeout"
        => /\ promise[i].state = "rejected"
           /\ promise[i].value = TimeoutError
           /\ attempt = i
           /\ ~retryTimer

\* C6: a response outside 200..299 that is not 429 ends the call chain:
\* its attempt is the last one, no retry is pending, and the invocation
\* that received it is rejected with an EnclaveApiError carrying the
\* status, the path and the method; so is the call itself whenever the
\* earlier attempts were retried 429s or transport errors.
C6_FailureStatusNotRetried ==
    \A i \in 1..Len(outcomes) :
        outcomes[i] = "failure"
        => /\ attempt = i
           /\ ~retryTimer
           /\ lastAnswer.status \notin 200..299 /\ lastAnswer.status # 429
           /\ \A j \in {1, i} :
                  (\A k \in j..(i - 1) : outcomes[k] \in {"429", "error"})
                  => /\ promise[j].state = "rejected"
                     /\ promise[j].value.kind = "EnclaveApiError"
                     /\ promise[j].value.statusCode = lastAnswer.status
                     /\ promise[j].value.endpoint = call.path
                     /\ promise[j].value.method = call.method

\* C6 witness: a 500 on the second attempt, with retry budget left
C6_Witness ==
    /\ maxRetries = 3
    /\ outcomes = <<"429", "failure">>
    /\ lastAnswer.status = 500
    /\ promise[1].state = "rejected"
    /\ promise[1].value.statusCode = 500
    /\ call.method = "POST"

\* C7: when every attempt fails with a transport error, the wait after
\* failed attempt i is retryDelay * 2^(i-1), at most maxRetries+1 attempts
\* are issued, and once the last fails the call is rejected with the
\* underlying cause; until then it stays pending.
C7_TransportErrorExhausted ==
    ( FirstAre(Len(outcomes), "error") /\ Len(outcomes) >= 1 )
    => /\ attempt <= maxRetries + 1
       /\ Len(outcomes) <= maxRetries
          => /\ promise = [ i \in 1..attempt |-> PendingPromise ]
             /\ delays = ExpectedDelays(Len(outcomes))
             /\ (AllAnswered => retryTimer)
       /\ Len(outcomes) = maxRetries + 1
          => /\ attempt = maxRetries + 1
             /\ ~retryTimer
             /\ delays = ExpectedDelays(maxRetries)
             /\ promise[1].state = "rejected"
             /\ promise[1].value.kind = "Error"
             /\ promise[1].value.message = lastAnswer.cause

\* C7 witness: maxRetries = 3, four transport errors, the call rejected
\* with the cause of the last one after the delays d, 2d, 4d
C7_Witness ==
    /\ maxRetries = 3
    /\ outcomes = <<"error", "error", "error", "error">>
    /\ delays = <<retryDelay, 2 * retryDelay, 4 * retryDelay>>
    /\ promise[1].state = "rejected"
    /\ promise[1].value.message = "ENOTFOUND"

\* C35: when the answers so far are 429 responses and transport errors in
\* any order, at most maxRetries+1 attempts have been issued, and the wait
\* after failed attempt i was retryDelay * 2^(i-1) whichever kind failed;
\* once attempt maxRetries+1 has failed no retry is pending.
C35_MixedFailuresShareCounter ==
    ( \A i \in 1..Len(outcomes) : outcomes[i] \in { "429", "error" } )
    => /\ attempt <= maxRetries + 1
       /\ Len(outcomes) <= maxRetries + 1
       /\ delays = [ i \in 1..(IF Len(outcomes) <= maxRetries
                               THEN Len(outcomes) ELSE maxRetries) |->
                       retryDelay * 2 ^ (i - 1) ]
       /\ Len(outcomes) = maxRetries + 1
          => ~retryTimer /\ promise[1].state = "rejected"

\* C35 witness: maxRetries = 3, the four attempts failed in turn with 429,
\* a transport error, 429 and a transport error, after the delays d, 2d, 4d
C35_Witness ==
    /\ maxRetries = 3
    /\ outcomes = << "429", "error", "429", "error" >>
    /\ attempt = 4
    /\ delays = << retryDelay, 2 * retryDelay, 4 * retryDelay >>
    /\ ~retryTimer
    /\ promise[1].state = "rejected"

----------------------------------------------------------------------------
(* The promise connect() returns (lines 77-166).  The 'open' handler of    *)
(* the transport the call created resolves it (line 109), its 'error'      *)
(* handler rejects it (line 139) after `this.emit('error', error)` (line   *)
(* 138).  EventEmitter.emit('error') throws when the client has no 'error' *)
(* listener: the exception leaves the handler before line 139.  What       *)
(* follows is up to the process: it ends, or it survives and the           *)
(* transport's 'close' event may still be delivered.  The promises of the  *)
(* connect() calls made by the reconnect timer are not the user's (line    *)
(* 400).                                                                   *)

\* resolve() or reject() called by a handler of transport t
settleConnect(p, t, state) ==
    IF p.transport = t /\ p.state = "pending" THEN [ p EXCEPT !.state = state ] ELSE p

\* the user calls connect() on a client that has no transport and no timer
UserConnect ==
    /\ NoTransport
    /\ PendingTimers = 0
    /\ connect
    /\ connectPromise' = [ transport |-> NewTransport, state |-> "pending" ]
    /\ UNCHANGED <<sequenceNumber, errorListener, invoked, thrown, highestSeen,
                   parseFailed, lastRegistryOp>>

\* 'open' on transport t: lines 92-110
ConnectOpens(t) ==
    /\ WsOpen(t)
    /\ connectPromise' = settleConnect(connectPromise, t, "resolved")
    /\ UNCHANGED <<sequenceNumber, errorListener, invoked, thrown, highestSeen,
                   parseFailed, lastRegistryOp>>

\* the connection attempt of t fails and the client has an 'error'
\* listener: 'error' (lines 134-140), then 'close' (lines 142-157)
ConnectFails(t) ==
    /\ WsConnectFail(t)
    /\ connectPromise' = settleConnect(connectPromise, t, "rejected")
    /\ UNCHANGED <<sequenceNumber, errorListener, invoked, thrown, highestSeen,
                   parseFailed, lastRegistryOp>>

\* the connection attempt of t fails and the client has no 'error'
\* listener: line 138 throws, line 139 is not reached, and no handler of t
\* will settle the promise later
ErrorUnheard(t) ==
    /\ readyState[t] = "CONNECTING"
    /\ ~errorListener
    /\ readyState' = [ readyState EXCEPT ![t] = "CLOSING" ]
    /\ sent' = <<>>
    /\ emitted' = <<>>
    /\ connectPromise' = IF connectPromise.transport = t
                         THEN [ connectPromise EXCEPT !.transport = 0 ]
                         ELSE connectPromise
    /\ UNCHANGED <<ws, isConnected, reconnect, reconnectAttempts, scheduled, heartbeatInterval,
                   heartbeatTimers, reconnectTimeout, subscriptions, hasAuth, reconnectDelay,
                   maxReconnectAttempts, orphanTimers, announced, afterDisconnect>>
    /\ UNCHANGED <<sequenceNumber, errorListener, invoked, thrown, highestSeen,
                   parseFailed, lastRegistryOp>>

InitConnect ==
    /\ InitWs
    /\ sequenceNumber = 0
    /\ errorListener \in BOOLEAN
    /\ invoked = <<>>
    /\ thrown = FALSE
    /\ highestSeen = 0
    /\ parseFailed = FALSE
    /\ lastRegistryOp = NoRegistryOp
    /\ connectPromise = NoPromise
    /\ IdleRequest
    /\ IdleClient

NextConnect ==
    \/ UserConnect /\ UNCHANGED <<reqVars, clientVars>>
    \/ \E t \in Transports : ConnectOpens(t) /\ UNCHANGED <<reqVars, clientVars>>
    \/ \E t \in Transports : ConnectFails(t) /\ UNCHANGED <<reqVars, clientVars>>
    \/ \E t \in Transports : ErrorUnheard(t) /\ UNCHANGED <<reqVars, clientVars>>
    \/ \E t \in Transports : WsClose(t) /\ UNCHANGED <<msgVars, reqVars, clientVars>>
    \/ \E t \in Transports : WsError(t) /\ UNCHANGED <<msgVars, reqVars, clientVars>>
    \/ TimerCallback
    \/ disconnect /\ UNCHANGED <<msgVars, reqVars, clientVars>>
    \/ \E c \in Channels, h \in Handlers, m \in Markets :
           subscribe(c, h, m) /\ UNCHANGED <<msgVars, reqVars, clientVars>>

\* the reconnect timer is a setTimeout of the event loop: it fires unless
\* disconnect() clears it
SpecConnect == InitConnect /\ [][NextConnect]_vars /\ WF_vars(TimerCallback)

\* the attempt the user's connect() started fails on transport t
InitialConnectFails(t) ==
    /\ connectPromise = [ transport |-> t, state |-> "pending" ]
    /\ ConnectFails(t) \/ ErrorUnheard(t)

\* C38: when the attempt started by the user's connect() fails while
\* reconnection is enabled and the budget is not used up, the promise the
\* call returned is rejected and a reconnect timer is left pending with one
\* more attempt counted; a pending timer leads to connect() being called by
\* the timer (or to disconnect()), and the attempts never exceed
\* maxReconnectAttempts.
C38_FailedConnectRejectsAndRetries ==
    /\ [][ \A t \in Transports :
               ( /\ InitialConnectFails(t)
                 /\ reconnect
                 /\ reconnectAttempts < maxReconnectAttempts )
               => /\ connectPromise'.state = "rejected"
                  /\ reconnectTimeout' = "pending"
                  /\ reconnectAttempts' = reconnectAttempts + 1
                  /\ reconnectAttempts' <= maxReconnectAttempts ]_vars
    /\ (reconnectTimeout = "pending") ~> (afterDisconnect \/ ReconnectUnderWay)

----------------------------------------------------------------------------
(* Termination of request(): lines 67-173.  Every attempt is one https     *)
(* request; the environment answers it with a complete response ('end'),   *)
(* a transport error or, after this.timeout ms of silence, a timeout.  A   *)
(* retry is a setTimeout of the event loop, which nothing clears.          *)

\* the https request in flight is answered: 'end', 'error' or 'timeout'
AttemptAnswered ==
    /\ \/ \E i \in 1..attempt, s \in Statuses, d \in Bodies : ResEnd(i, s, d)
       \/ \E i \in 1..attempt, c \in Causes : ReqError(i, c)
       \/ \E i \in 1..attempt : ReqTimeout(i)
    /\ UNCHANGED <<wsVars, msgVars, clientVars>>

\* the retry timer runs its callback
RetryTimerCallback == RetryTimerFires /\ UNCHANGED <<wsVars, msgVars, clientVars>>

SpecRequestLive ==
    InitRequest /\ [][NextRequest]_vars
    /\ WF_vars(AttemptAnswered) /\ WF_vars(RetryTimerCallback)

\* the promise the user's request() call returned is resolved or rejected
CallSettled == attempt >= 1 /\ promise[1].state # "pending"

\* C40: the attempt number only grows, by one per retry, and stays within
\* maxRetries + 1; a retry is scheduled only by an attempt whose number is
\* at most maxRetries; and when every attempt is answered, a call that was
\* made is eventually resolved or rejected.
C40_RequestTerminates ==
    /\ [][ /\ attempt' \in { attempt, attempt + 1 }
           /\ attempt' <= maxRetries + 1
           /\ (retryTimer' /\ ~retryTimer) => attempt <= maxRetries ]_vars
    /\ (attempt >= 1) ~> CallSettled

\* C40 witness: maxRetries = 3; the attempts were answered 429, transport
\* error, 429 and then a 2xx response, which resolved the call
C40_Witness ==
    /\ maxRetries = 3
    /\ outcomes = << "429", "error", "429", "success" >>
    /\ attempt = 4
    /\ ~retryTimer
    /\ CallSettled
    /\ promise[1].state = "resolved"

====
